---- MODULE Spec2Model ----
(***************************************************************************)
(* Generation tracking, node health classification and the rotation and    *)
(* repair protocol of neckbeard (environment_manager.py, cloud_resource.py,*)
(* actions/up.py, actions/override.py).                                    *)
(*                                                                         *)
(* The resource tracker is a sequence of InfrastructureNode records, the   *)
(* cloud is the live state of every instance id, the load balancer and the *)
(* elastic ip.  A Deployment object is its two cached generation ids and   *)
(* the deployment_confs it was constructed with.                           *)
(***************************************************************************)
EXTENDS Integers, Sequences, FiniteSets, TLC

\* ---------------------------------------------------------------- bounds
MaxEc2 == 2          \* ec2 instance ids that can ever be launched
MaxRds == 1          \* rds instance labels (one per generation counter)
MaxNodes == 2        \* tracker records
MaxAsk == 1          \* answers other than Ignore and Fail to one prompt

\* Python's None (every generation id is >= 1, so 0 is as falsy as None)
None == 0

Ec2Ids == 1..MaxEc2
RdsIds == (MaxEc2 + 1)..(MaxEc2 + MaxRds)
AwsIds == Ec2Ids \cup RdsIds
AwsTypeOf(id) == IF id \in Ec2Ids THEN "ec2" ELSE "rds"

\* ------------------------------------------------- deployment_confs (input)
\* the roles a configuration may define: web0 and web1 sit behind the load
\* balancer, job has only a health_check, app owns the elastic ip, db is
\* the database
AllRoles == {<<"ec2", "web0">>, <<"ec2", "web1">>, <<"ec2", "job">>,
             <<"ec2", "app">>, <<"rds", "db">>}
KeyPair == "deploy-key"
node_confs(role) ==
    [keypair |-> KeyPair,
     elastic_ip |-> (role = <<"ec2", "app">>),
     loadbalancer |-> (role \in {<<"ec2", "web0">>, <<"ec2", "web1">>}),
     health_check |-> (role[1] = "ec2")]

\* ------------------------------------------------------------------ state
VARIABLES
    tracker,     \* Seq of InfrastructureNode records (the SimpleDB domain)
    inst,        \* [AwsIds -> instance state], "none" = no such instance
    probe,       \* [AwsIds -> BOOLEAN] the health_check url answers with the marker
    lbIn,        \* ids registered in the load balancer
    lbSvc,       \* ids the load balancer reports as InService
    eip,         \* instance id the elastic ip points at, or None
    dep,         \* the Deployment object: [a, p, confs]
    pc,          \* position of the single thread of control
    op,          \* locals of the operation in progress
    result,      \* outcome of the last finished operation
    hist         \* what the operation in progress has done so far

vars == <<tracker, inst, probe, lbIn, lbSvc, eip, dep, pc, op, result, hist>>
cloudVars == <<inst, probe, lbIn, lbSvc, eip>>

EC2_RETIRED_STATES == {"shutting-down", "terminated"}
RDS_RETIRED_STATES == {"deleted"}

\* ------------------------------------------------------- sequence helpers
Range(s) == {s[i] : i \in DOMAIN s}
RECURSIVE SortedSeq(_)
\* the members of a set of numbers in increasing order (the order in which
\* a filter() on the tracker yields its records)
SortedSeq(S) ==
    IF S = {} THEN <<>>
    ELSE LET m == CHOOSE x \in S : \A y \in S : x <= y
         IN <<m>> \o SortedSeq(S \ {m})

\* ----------------------------------------------------- the live snapshot
\* the cloud as one value
Cloud ==
    [inst |-> inst, probe |-> probe, lbIn |-> lbIn, lbSvc |-> lbSvc,
     eip |-> eip]

\* InfrastructureNode.boto_instance and the elb / address lookups for the
\* instance id, in the cloud c
live(c, id) ==
    [exists |-> (id \in AwsIds /\ c.inst[id] # "none"),
     state |-> IF id \in AwsIds THEN c.inst[id] ELSE "none",
     id |-> id,
     key_name |-> KeyPair,
     public_dns_name |-> (id \in AwsIds /\ c.inst[id] = "running"),
     elastic_ip_instance |-> c.eip,
     in_load_balancer |-> (id \in c.lbIn),
     lb_state |-> IF id \in c.lbSvc THEN "InService" ELSE "OutOfService",
     probe |-> IF id \in AwsIds /\ c.probe[id] THEN "marker" ELSE "no_marker"]

boto_instance(id) == live(Cloud, id)

\* node._deployment_info: the configuration of the node's role, or nothing
NoInfo ==
    [present |-> FALSE, keypair |-> "", elastic_ip |-> FALSE,
     loadbalancer |-> FALSE, health_check |-> FALSE]
deployment_info(role) ==
    [present |-> TRUE,
     keypair |-> node_confs(role).keypair,
     elastic_ip |-> node_confs(role).elastic_ip,
     loadbalancer |-> node_confs(role).loadbalancer,
     health_check |-> node_confs(role).health_check]

\* ------------------------------------------------- InfrastructureNode (pure)
\* b is the live snapshot (boto_instance), info the node's _deployment_info
is_actually_running(aws_type, b) ==
    IF aws_type = "ec2"
    THEN b.exists /\ b.state \notin EC2_RETIRED_STATES
    ELSE IF aws_type = "rds"
    THEN b.exists /\ b.state \notin RDS_RETIRED_STATES
    ELSE FALSE

_instance_in_load_balancer(b, info) ==
    b.exists /\ info.loadbalancer /\ b.in_load_balancer

is_operational(aws_type, b, info) ==
    IF ~b.exists THEN FALSE
    ELSE IF ~info.present THEN FALSE
    ELSE IF aws_type = "ec2" THEN
        IF b.state # "running" THEN FALSE
        ELSE IF b.key_name # info.keypair THEN FALSE
        ELSE IF info.elastic_ip /\ b.id # b.elastic_ip_instance THEN FALSE
        ELSE IF info.loadbalancer /\ ~_instance_in_load_balancer(b, info)
            THEN FALSE
        ELSE IF info.loadbalancer /\ b.lb_state # "InService" THEN FALSE
        ELSE TRUE
    ELSE IF aws_type = "rds" THEN b.state = "available"
    ELSE FALSE

passes_health_check(b, info) ==
    IF ~info.health_check THEN TRUE
    ELSE IF ~b.public_dns_name THEN TRUE
    ELSE b.probe = "marker"

\* a variant of is_healthy that never runs the health probe
is_healthy_no_probe(aws_type, b, info) ==
    IF ~b.exists THEN FALSE
    ELSE IF ~info.present THEN FALSE
    ELSE IF aws_type = "ec2" THEN
        b.state = "running" /\ b.key_name = info.keypair
    ELSE IF aws_type = "rds" THEN b.state = "available"
    ELSE FALSE

is_healthy(aws_type, b, info) ==
    IF ~b.exists THEN FALSE
    ELSE IF ~info.present THEN FALSE
    ELSE IF aws_type = "ec2" THEN
        IF b.state # "running" THEN FALSE
        ELSE IF b.key_name # info.keypair THEN FALSE
        ELSE passes_health_check(b, info)
    ELSE IF aws_type = "rds" THEN b.state = "available"
    ELSE FALSE

\* a node object as the Deployment hands it out: the record as loaded, the
\* tracker item it was loaded from (None for a blank node) and its info
NodeObj(i, rec, info) == [idx |-> i, rec |-> rec, info |-> info]
\* the node properties in the cloud c, and in the current cloud
is_operational_in(c, n) ==
    is_operational(n.rec.aws_type, live(c, n.rec.aws_id), n.info)
is_healthy_in(c, n) ==
    is_healthy(n.rec.aws_type, live(c, n.rec.aws_id), n.info)
is_actually_running_in(c, n) ==
    is_actually_running(n.rec.aws_type, live(c, n.rec.aws_id))
node_is_operational(n) == is_operational_in(Cloud, n)
node_is_healthy(n) == is_healthy_in(Cloud, n)
node_is_actually_running(n) == is_actually_running_in(Cloud, n)


\* ------------------------------------------------------------ Deployment
\* filter(is_active_generation=1), in tracker order
active_nodes(trk) ==
    SortedSeq({i \in DOMAIN trk : trk[i].is_active_generation = 1})

\* a variant of active_gen_id that never raises: the generation of the first
\* active record wins
active_gen_id_first_wins(d, trk) == FALSE

\* the property raises "Inconsistent generation ids in simpledb"
active_gen_id_raises(d, trk) ==
    /\ d.a = None
    /\ Len(active_nodes(trk)) # 0
    /\ \E k \in DOMAIN active_nodes(trk) :
          trk[active_nodes(trk)[k]].generation_id
              # trk[active_nodes(trk)[1]].generation_id

\* the value the property returns when it does not raise
active_gen_id(d, trk) ==
    IF d.a # None THEN d.a
    ELSE IF Len(active_nodes(trk)) = 0 THEN None
    ELSE trk[active_nodes(trk)[1]].generation_id

\* the Deployment after the property was read (self._active_gen_id = gen_id)
after_active_gen_id(d, trk) == [d EXCEPT !.a = active_gen_id(d, trk)]

pending_gen_id_raises(d, trk) ==
    d.p = None /\ active_gen_id_raises(d, trk)

pending_gen_id(d, trk) ==
    IF d.p # None THEN d.p
    ELSE IF active_gen_id(d, trk) # None THEN active_gen_id(d, trk) + 1
    ELSE 1

after_pending_gen_id(d, trk) ==
    IF d.p # None THEN d
    ELSE [after_active_gen_id(d, trk) EXCEPT !.p = pending_gen_id(d, trk)]

\* is_running=None: the filter is not applied
Unfiltered == -1

BlankRec(aws_type) ==
    [aws_type |-> aws_type, aws_id |-> None, name |-> "",
     generation_id |-> None, is_running |-> 1, is_active_generation |-> 0]
\* get_blank_node: a node that is in no tracker item
get_blank_node(aws_type) == NodeObj(None, BlankRec(aws_type), NoInfo)
\* the mock node the get_*_nodes listings put in the place of a missing role
mock_node(role) ==
    NodeObj(None, [BlankRec(role[1]) EXCEPT !.name = role[2]], NoInfo)
\* Python's None where a node is expected
NoNode == NodeObj(-1, BlankRec(""), NoInfo)

RoleOf(rec) == <<rec.aws_type, rec.name>>

\* get_all_nodes: the configured nodes that pass the filters, in tracker order
get_all_nodes(d, trk, generation_id, is_running) ==
    LET matching == {i \in DOMAIN trk :
            /\ (generation_id # None => trk[i].generation_id = generation_id)
            /\ (is_running # Unfiltered => trk[i].is_running = is_running)
            /\ RoleOf(trk[i]) \in d.confs}
        order == SortedSeq(matching)
    IN [k \in DOMAIN order |->
            NodeObj(order[k], trk[order[k]],
                    deployment_info(RoleOf(trk[order[k]])))]

\* a variant of get_all_active_nodes that finds no node
get_all_active_nodes_none(d, trk, is_running) == <<>>

get_all_active_nodes(d, trk, is_running) ==
    IF active_gen_id(d, trk) # None
    THEN get_all_nodes(d, trk, active_gen_id(d, trk), is_running)
    ELSE <<>>

get_all_pending_nodes(d, trk, is_running) ==
    get_all_nodes(after_active_gen_id(d, trk), trk,
                  pending_gen_id(d, trk), is_running)

\* a variant of get_all_old_nodes that takes every generation but the
\* pending one for old
get_all_old_nodes_not_pending(d, trk, is_running) ==
    LET all == get_all_nodes(d, trk, None, Unfiltered)
        old == {k \in DOMAIN all :
                  all[k].rec.generation_id # pending_gen_id(d, trk)}
        keys == SortedSeq({all[k].rec.generation_id * (MaxNodes + 2) + k :
                           k \in old})
    IN [j \in DOMAIN keys |-> all[keys[j] % (MaxNodes + 2)]]

\* get_all_old_nodes ignores its is_running argument; sorted by generation
get_all_old_nodes(d, trk, is_running) ==
    LET all == get_all_nodes(d, trk, None, Unfiltered)
        old == {k \in DOMAIN all :
                  /\ all[k].rec.generation_id # active_gen_id(d, trk)
                  /\ all[k].rec.generation_id # pending_gen_id(d, trk)}
        keys == SortedSeq({all[k].rec.generation_id * (MaxNodes + 2) + k :
                           k \in old})
    IN [j \in DOMAIN keys |-> all[keys[j] % (MaxNodes + 2)]]

\* the tracker items get_node's filter matches
get_node_matching(trk, aws_type, node_name, generation_id, is_running) ==
    {i \in DOMAIN trk :
        /\ trk[i].generation_id = generation_id
        /\ trk[i].aws_type = aws_type
        /\ trk[i].name = node_name
        /\ trk[i].is_running = is_running}

\* 'More than one matching node' (or no configuration for the match)
get_node_raises(d, trk, aws_type, node_name, generation_id, is_running) ==
    LET m == get_node_matching(trk, aws_type, node_name, generation_id,
                               is_running)
    IN \/ Cardinality(m) > 1
       \/ Cardinality(m) = 1 /\ <<aws_type, node_name>> \notin d.confs

get_node(d, trk, aws_type, node_name, generation_id, is_running) ==
    LET m == get_node_matching(trk, aws_type, node_name, generation_id,
                               is_running)
    IN IF Cardinality(m) = 1
       THEN LET i == CHOOSE i \in m : TRUE
            IN NodeObj(i, trk[i], deployment_info(<<aws_type, node_name>>))
       ELSE NoNode

get_active_node_raises(d, trk, role) ==
    \/ active_gen_id_raises(d, trk)
    \/ /\ active_gen_id(d, trk) # None
       /\ get_node_raises(d, trk, role[1], role[2], active_gen_id(d, trk), 1)

get_active_node(d, trk, role) ==
    IF active_gen_id(d, trk) # None
    THEN get_node(d, trk, role[1], role[2], active_gen_id(d, trk), 1)
    ELSE NoNode

get_pending_node_raises(d, trk, role) ==
    \/ pending_gen_id_raises(d, trk)
    \/ get_node_raises(d, trk, role[1], role[2], pending_gen_id(d, trk), 1)

get_pending_node(d, trk, role) ==
    get_node(d, trk, role[1], role[2], pending_gen_id(d, trk), 1)

\* deployment_confs.items(), as a sequence (ec2 before rds, names sorted)
RoleOrder == <<<<"ec2", "app">>, <<"ec2", "job">>, <<"ec2", "web0">>,
               <<"ec2", "web1">>, <<"rds", "db">>>>
conf_items(d) == SelectSeq(RoleOrder, LAMBDA r : r \in d.confs)

RECURSIVE Flatten(_)
Flatten(ss) == IF ss = <<>> THEN <<>> ELSE Head(ss) \o Flatten(Tail(ss))

\* a configured role whose get_active_node / get_pending_node raises
inoperational_active_raises(d, trk) ==
    \E r \in d.confs : get_active_node_raises(d, trk, r)

\* a variant of get_inoperational_active_nodes that leaves the missing
\* roles out
get_inoperational_active_nodes_no_mock(d, trk) ==
    LET items == conf_items(d)
        one(r) == LET node == get_active_node(d, trk, r)
                  IN IF node = NoNode THEN <<>>
                     ELSE IF ~node_is_operational(node) THEN <<node>>
                     ELSE <<>>
    IN Flatten([k \in DOMAIN items |-> one(items[k])])

get_inoperational_active_nodes(d, trk) ==
    LET items == conf_items(d)
        one(r) == LET node == get_active_node(d, trk, r)
                  IN IF node = NoNode THEN <<mock_node(r)>>
                     ELSE IF ~node_is_operational(node) THEN <<node>>
                     ELSE <<>>
    IN Flatten([k \in DOMAIN items |-> one(items[k])])

active_is_fully_operational(d, trk) ==
    get_inoperational_active_nodes(d, trk) = <<>>

unhealthy_pending_raises(d, trk) ==
    \/ pending_gen_id_raises(d, trk)
    \/ \E r \in d.confs : get_pending_node_raises(d, trk, r)

get_unhealthy_pending_nodes(d, trk) ==
    LET nodes == get_all_pending_nodes(d, trk, Unfiltered)
        unhealthy == SelectSeq(nodes,
            LAMBDA n : n.rec.is_running # 0 /\ ~node_is_healthy(n))
        items == conf_items(d)
        one(r) == LET node == get_pending_node(d, trk, r)
                  IN IF node = NoNode THEN <<mock_node(r)>>
                     ELSE IF ~node_is_healthy(node) THEN <<node>>
                     ELSE <<>>
    IN unhealthy \o Flatten([k \in DOMAIN items |-> one(items[k])])

\* a variant of pending_is_healthy that looks only at the nodes the pending
\* generation has, not at the roles it lacks
pending_is_healthy_of_existing(d, trk) ==
    \A k \in DOMAIN get_all_pending_nodes(d, trk, Unfiltered) :
        LET n == get_all_pending_nodes(d, trk, Unfiltered)[k]
        IN n.rec.is_running = 0 \/ node_is_healthy(n)

pending_is_healthy(d, trk) == get_unhealthy_pending_nodes(d, trk) = <<>>

unhealthy_active_raises(d, trk) ==
    \E r \in d.confs : get_active_node_raises(d, trk, r)

get_unhealthy_active_nodes(d, trk) ==
    LET nodes == get_all_active_nodes(d, trk, Unfiltered)
        unhealthy == SelectSeq(nodes,
            LAMBDA n : n.rec.is_running # 0 /\ ~node_is_healthy(n))
        items == conf_items(d)
        one(r) == LET node == get_active_node(d, trk, r)
                  IN IF node = NoNode THEN <<mock_node(r)>>
                     ELSE IF ~node_is_healthy(node) THEN <<node>>
                     ELSE <<>>
    IN unhealthy \o Flatten([k \in DOMAIN items |-> one(items[k])])

active_is_healthy(d, trk) == get_unhealthy_active_nodes(d, trk) = <<>>

\* a variant of has_required_redundancy that finds redundancy everywhere
has_required_redundancy_always(d, trk, node) == TRUE

\* has_required_redundancy: another node of the generation and type, with a
\* different name, is operational
has_required_redundancy(d, trk, node) ==
    LET all_gen_nodes == get_all_nodes(d, trk, node.rec.generation_id, 1)
        same_aws_nodes == SelectSeq(all_gen_nodes,
            LAMBDA n : n.rec.aws_type = node.rec.aws_type)
        other_operational_nodes == SelectSeq(same_aws_nodes,
            LAMBDA n : n.rec.name # node.rec.name /\ node_is_operational(n))
    IN other_operational_nodes # <<>>

\* the running, configured nodes of a type in the active generation that
\* are operational
operational_nodes(d, trk, aws_type) ==
    {i \in DOMAIN trk :
        /\ RoleOf(trk[i]) \in d.confs
        /\ trk[i].aws_type = aws_type
        /\ active_gen_id(d, trk) # None
        /\ trk[i].generation_id = active_gen_id(d, trk)
        /\ trk[i].is_running = 1
        /\ is_operational(trk[i].aws_type, boto_instance(trk[i].aws_id),
                          deployment_info(RoleOf(trk[i])))}

\* ------------------------------------------- InfrastructureNode (mutators)
\* a variant of _remove_from_loadbalancer that does not look at the
\* configured balancer
remove_from_loadbalancer_any(c, n) ==
    IF n.rec.aws_type # "ec2" THEN c
    ELSE IF n.rec.aws_id \notin c.lbIn THEN c
    ELSE [c EXCEPT !.lbIn = @ \ {n.rec.aws_id},
                   !.lbSvc = @ \ {n.rec.aws_id}]

\* _remove_from_loadbalancer
remove_from_loadbalancer(c, n) ==
    IF n.rec.aws_type # "ec2" THEN c
    ELSE IF ~n.info.loadbalancer THEN c
    ELSE IF ~_instance_in_load_balancer(live(c, n.rec.aws_id), n.info) THEN c
    ELSE [c EXCEPT !.lbIn = @ \ {n.rec.aws_id},
                   !.lbSvc = @ \ {n.rec.aws_id}]

make_temporarily_inoperative(c, n) ==
    IF n.rec.aws_type = "ec2" THEN remove_from_loadbalancer(c, n) ELSE c

make_fully_inoperative(c, n) ==
    IF n.rec.aws_type = "ec2"
    THEN LET c1 == IF /\ n.info.elastic_ip
                      /\ c.eip # None
                      /\ c.eip = n.rec.aws_id
                   THEN [c EXCEPT !.eip = None] ELSE c
         IN remove_from_loadbalancer(c1, n)
    ELSE c

\* a variant of the precondition of make_operational that only looks at
\* the health of the node
make_operational_raises_unhealthy(c, n, force_operational) ==
    ~force_operational /\ ~is_healthy_in(c, n)

\* make_operational raises 'Only health nodes in the active generation can
\* be made operational'
make_operational_raises(c, n, force_operational) ==
    /\ ~force_operational
    /\ (~is_healthy_in(c, n) \/ n.rec.is_active_generation = 0)

\* make_operational when it does not raise: the elastic ip is pointed at the
\* instance and the instance is put in the load balancer
make_operational(c, n) ==
    IF n.rec.aws_type = "ec2"
    THEN [c EXCEPT
            !.eip = IF n.info.elastic_ip THEN n.rec.aws_id ELSE @,
            !.lbIn = IF n.info.loadbalancer THEN @ \cup {n.rec.aws_id} ELSE @]
    ELSE c

\* a variant of the guard of terminate that lets every node through
terminate_raises_never(c, n) == FALSE

\* terminate and retire refuse an active, operational node
terminate_raises(c, n) ==
    n.rec.is_active_generation # 0 /\ is_operational_in(c, n)
retire_raises(c, n) ==
    n.rec.is_active_generation # 0 /\ is_operational_in(c, n)

\* the cloud after terminate() released the resource
terminate_instance(c, n) ==
    IF ~is_actually_running_in(c, n) THEN c
    ELSE IF n.rec.aws_type = "ec2"
    THEN [c EXCEPT !.inst[n.rec.aws_id] = "terminated",
                   !.probe[n.rec.aws_id] = FALSE,
                   !.lbSvc = @ \ {n.rec.aws_id},
                   !.eip = IF @ = n.rec.aws_id THEN None ELSE @]
    ELSE IF n.rec.aws_type = "rds"
    THEN [c EXCEPT !.inst[n.rec.aws_id] = "deleted"]
    ELSE c

\* the cloud variables take the value c
SetCloud(c) ==
    /\ inst' = c.inst
    /\ probe' = c.probe
    /\ lbIn' = c.lbIn
    /\ lbSvc' = c.lbSvc
    /\ eip' = c.eip

\* node.save(): overwrite the tracker item with the object's fields; an
\* object that is in no item yet becomes a new item
save(trk, n) ==
    IF n.idx = None THEN Append(trk, n.rec)
    ELSE [trk EXCEPT ![n.idx] = n.rec]

\* node.terminate() and node.retire() in the cloud c and the tracker trk:
\* what they leave behind, and the exception when they raise.  Only once
\* the guard has let the node through is the resource released and the
\* record saved with is_running = 0
node_terminate(c, trk, n) ==
    IF terminate_raises(c, n)
    THEN [c |-> c, trk |-> trk, exc |-> "ActiveOperational"]
    ELSE [c |-> terminate_instance(c, n),
          trk |-> save(trk, [n EXCEPT !.rec.is_running = 0]),
          exc |-> ""]
node_retire(c, trk, n) ==
    IF retire_raises(c, n)
    THEN [c |-> c, trk |-> trk, exc |-> "ActiveOperational"]
    ELSE [c |-> c,
          trk |-> save(trk, [n EXCEPT !.rec.is_running = 0]),
          exc |-> ""]

\* a variant of verify_running_state that takes every listed node for lost
verify_running_state_all(trk, nodes) ==
    [i \in DOMAIN trk |->
        IF \E k \in DOMAIN nodes : nodes[k].idx = i /\ trk[i].is_running = 1
        THEN [trk[i] EXCEPT !.is_running = 0]
        ELSE trk[i]]

\* verify_running_state on every node of a listing
RECURSIVE verify_running_state(_, _)
verify_running_state(trk, nodes) ==
    IF nodes = <<>> THEN trk
    ELSE LET n == Head(nodes)
             t1 == IF n.rec.is_running = 1 /\ ~node_is_actually_running(n)
                   THEN save(trk, [n EXCEPT !.rec.is_running = 0])
                   ELSE trk
         IN verify_running_state(t1, Tail(nodes))

\* --------------------------------------------------------------- control
\* One command (fabric task) runs at a time.  It builds its own Deployment,
\* which lives until the command ends; between commands pc is "idle" and
\* there is no Deployment object.
Fresh(confs) == [a |-> None, p |-> None, confs |-> confs]
NoDeployment == Fresh({})

NoLocals ==
    [cmd |-> "", is_active |-> FALSE, force |-> FALSE, interactive |-> FALSE,
     active_nodes |-> <<>>, pending_nodes |-> <<>>,
     made_operational |-> <<>>, fixed_nodes |-> <<>>, time_waited |-> 0,
     todo |-> <<>>, node |-> NoNode, make_operational |-> FALSE,
     count |-> 0, entry_operational |-> FALSE, entry_siblings |-> {},
     attempts |-> 0, asked |-> 0, eip_turn |-> 0, start_count |-> 0]

Result(name, status, exc, value) ==
    [op |-> name, status |-> status, exc |-> exc, value |-> value]

NoResult == Result("", "", "", None)

\* the command ends: normally ("ok"), by an uncaught exception ("raised")
\* or by exit(1) ("exit")
Finish(name, status, exc, value) ==
    /\ result' = Result(name, status, exc, value)
    /\ pc' = "done"
    /\ op' = NoLocals
    /\ dep' = dep
    /\ hist' = hist

\* the nodes of a list as events of the history
Events(tag, nodes) == [k \in DOMAIN nodes |-> <<tag, nodes[k].rec.aws_id>>]

\* the command ends with a list of nodes: the list it returns, or the list
\* its exception names
FinishWith(name, status, exc, tag, nodes) ==
    /\ result' = Result(name, status, exc, Len(nodes))
    /\ pc' = "done"
    /\ op' = NoLocals
    /\ dep' = dep
    /\ hist' = hist \o Events(tag, nodes)

\* the process of the finished command is gone, and its Deployment with it
Exit ==
    /\ pc = "done"
    /\ pc' = "idle"
    /\ result' = NoResult
    /\ dep' = NoDeployment
    /\ op' = NoLocals
    /\ hist' = <<>>
    /\ UNCHANGED <<tracker, cloudVars>>

Init ==
    /\ tracker = <<>>
    /\ inst = [id \in AwsIds |-> "none"]
    /\ probe = [id \in AwsIds |-> FALSE]
    /\ lbIn = {}
    /\ lbSvc = {}
    /\ eip = None
    /\ dep = NoDeployment
    /\ pc = "idle"
    /\ op = NoLocals
    /\ result = NoResult
    /\ hist = <<>>

\* the records a sweep has marked as not running, as events of the history
flipped(trk, swept) ==
    LET order == SortedSeq({i \in DOMAIN trk :
                               trk[i].is_running # swept[i].is_running})
    IN [k \in DOMAIN order |-> <<"flipped", trk[order[k]].aws_id>>]

\* verify_deployment_state raises (the first read of the generation ids)
verify_deployment_state_raises(d, trk) == pending_gen_id_raises(d, trk)

\* a variant of verify_deployment_state that never looks at the old
\* generations
verify_deployment_state_no_old(d, trk, verify_old) ==
    LET d1 == after_pending_gen_id(d, trk)
        t1 == verify_running_state(trk,
                  get_all_pending_nodes(d1, trk, Unfiltered))
    IN verify_running_state(t1, get_all_active_nodes(d1, t1, Unfiltered))

\* the tracker after verify_deployment_state: pending, active, then old
verify_deployment_state(d, trk, verify_old) ==
    LET d1 == after_pending_gen_id(d, trk)
        t1 == verify_running_state(trk,
                  get_all_pending_nodes(d1, trk, Unfiltered))
        t2 == verify_running_state(t1,
                  get_all_active_nodes(d1, t1, Unfiltered))
    IN IF verify_old
       THEN verify_running_state(t2, get_all_old_nodes(d1, t2, Unfiltered))
       ELSE t2

\* the view command: Deployment, verify_deployment_state, then the nodes of
\* the active generation are listed (the task is hard-coded to the active
\* target); the value is the generation id it read
view(confs) ==
    /\ pc = "idle"
    /\ LET d0 == Fresh(confs)
       IN IF verify_deployment_state_raises(d0, tracker)
          THEN /\ Finish("view", "raised", "InconsistentGenerationIds", None)
               /\ UNCHANGED tracker
          ELSE LET d1 == after_pending_gen_id(d0, tracker)
                   trk == verify_deployment_state(d0, tracker, TRUE)
               IN /\ tracker' = trk
                  /\ result' = Result("view", "ok", "",
                                      active_gen_id(d1, tracker))
                  /\ pc' = "done"
                  /\ op' = NoLocals
                  /\ dep' = dep
                  /\ hist' = flipped(tracker, trk)
    /\ UNCHANGED cloudVars

\* set_node: the record of this aws id if exactly one exists, else a blank
\* node; every field is overwritten and the node saved
set_node(d, trk, aws_type, node_name, generation_id, aws_id, is_active) ==
    LET matching == {i \in DOMAIN trk :
            trk[i].aws_type = aws_type /\ trk[i].aws_id = aws_id}
        node == IF Cardinality(matching) = 1
                THEN LET i == CHOOSE i \in matching : TRUE
                     IN NodeObj(i, trk[i], NoInfo)
                ELSE get_blank_node(aws_type)
    IN save(trk, [node EXCEPT !.rec =
            [aws_type |-> aws_type, aws_id |-> aws_id, name |-> node_name,
             generation_id |-> generation_id, is_running |-> 1,
             is_active_generation |-> IF is_active THEN 1 ELSE 0]])

\* the generation set_active_node / set_pending_node registers the node in
set_node_gen_id(d, trk, is_active) ==
    IF is_active /\ active_gen_id(d, trk) # None
    THEN active_gen_id(d, trk)
    ELSE pending_gen_id(after_active_gen_id(d, trk), trk)

\* the Deployment after set_active_node / set_pending_node read its ids
after_set_node(d, trk, is_active) ==
    IF is_active /\ active_gen_id(d, trk) # None
    THEN after_active_gen_id(d, trk)
    ELSE after_pending_gen_id(d, trk)

\* get_new_rds_label: the rds instance id is built from the generation
\* counter alone; None when the counter is None (int(None) raises)
get_new_rds_label(d, trk, is_active) ==
    LET counter == IF is_active THEN active_gen_id(d, trk)
                   ELSE pending_gen_id(d, trk)
    IN IF counter = None THEN None ELSE MaxEc2 + counter

\* the id of the instance create_new_node launches: a new ec2 instance, or
\* the rds instance of the label; None when nothing can be launched
launch_id(d, trk, role, is_active) ==
    IF role[1] = "ec2"
    THEN IF \E id \in Ec2Ids : inst[id] = "none"
         THEN CHOOSE id \in Ec2Ids :
                inst[id] = "none" /\ \A j \in Ec2Ids : j < id => inst[j] # "none"
         ELSE None
    ELSE LET label == get_new_rds_label(d, trk, is_active)
         IN IF label \in RdsIds /\ inst[label] \in {"none", "deleted"}
            THEN label ELSE None

\* BaseNodeDeployment.get_node
deployer_get_node_raises(d, trk, role, is_active) ==
    IF is_active THEN get_active_node_raises(d, trk, role)
    ELSE get_pending_node_raises(d, trk, role)
deployer_get_node(d, trk, role, is_active) ==
    IF is_active THEN get_active_node(d, trk, role)
    ELSE get_pending_node(d, trk, role)
after_deployer_get_node(d, trk, is_active) ==
    IF is_active THEN after_active_gen_id(d, trk)
    ELSE after_pending_gen_id(d, trk)

\* --------------------------------------------------------------- repair
WAIT_TIME == 10
MAKE_OPERATIONAL_TIMEOUT == 240

\* the for loop of repair_active_generation over the inoperational nodes:
\* the cloud it leaves, the nodes it made operational, and whether a
\* make_operational call raised
RECURSIVE repair_loop(_, _, _, _)
repair_loop(c, nodes, force_operational, made) ==
    IF nodes = <<>> THEN [c |-> c, made |-> made, raised |-> FALSE]
    ELSE LET n == Head(nodes)
         IN IF n.rec.aws_id = None
            THEN repair_loop(c, Tail(nodes), force_operational, made)
            ELSE IF is_operational_in(c, n)
            THEN repair_loop(c, Tail(nodes), force_operational, made)
            ELSE IF ~(is_healthy_in(c, n) \/ force_operational)
            THEN repair_loop(c, Tail(nodes), force_operational, made)
            ELSE IF make_operational_raises(c, n, force_operational)
            THEN [c |-> c, made |-> made, raised |-> TRUE]
            ELSE repair_loop(make_operational(c, n), Tail(nodes),
                             force_operational, Append(made, n))


\* a variant of repair_active_generation that puts every running node of
\* the active generation in the load balancer again and returns them all
repair_active_generation_again(name, d, trk, force_operational, wait_until_operational) ==
    /\ tracker' = trk
    /\ lbIn' = lbIn \cup
          {n.rec.aws_id : n \in {m \in Range(get_all_active_nodes(d, trk, 1)) :
                                    m.info.loadbalancer}}
    /\ UNCHANGED <<inst, probe, lbSvc, eip>>
    /\ FinishWith(name, "ok", "", "returned", get_all_active_nodes(d, trk, 1))

\* repair_active_generation up to its wait loop, called by the command name
\* on the Deployment d and the tracker trk
repair_active_generation(name, d, trk, force_operational, wait_until_operational) ==
    /\ tracker' = trk
    /\ IF inoperational_active_raises(d, trk)
       THEN /\ Finish(name, "raised",
                    IF active_gen_id_raises(d, trk)
                    THEN "InconsistentGenerationIds"
                    ELSE "MoreThanOneMatchingNode", None)
            /\ UNCHANGED cloudVars
       ELSE IF active_is_fully_operational(d, trk)
       THEN /\ Finish(name, "ok", "", 0)
            /\ UNCHANGED cloudVars
       ELSE LET r == repair_loop(Cloud,
                        get_inoperational_active_nodes(d, trk),
                        force_operational, <<>>)
            IN /\ SetCloud(r.c)
               /\ IF r.raised
                  THEN Finish(name, "raised", "MakeOperational", None)
                  ELSE IF r.made = <<>> \/ ~wait_until_operational
                  THEN FinishWith(name, "ok", "", "returned", r.made)
                  ELSE /\ result' = result
                       /\ dep' = after_active_gen_id(d, trk)
                       /\ pc' = "repair_wait"
                       /\ op' = [NoLocals EXCEPT
                                   !.cmd = name,
                                   !.made_operational = r.made,
                                   !.fixed_nodes = r.made,
                                   !.time_waited = 0]
                       /\ hist' = hist

\* the repair command: Deployment, verify_deployment_state,
\* repair_active_generation(force_operational=force)
repair(confs, force) ==
    /\ pc = "idle"
    /\ LET d0 == Fresh(confs)
       IN IF verify_deployment_state_raises(d0, tracker)
          THEN /\ Finish("repair", "raised", "InconsistentGenerationIds",
                         None)
               /\ UNCHANGED <<tracker, cloudVars>>
          ELSE repair_active_generation("repair",
                   after_pending_gen_id(d0, tracker),
                   verify_deployment_state(d0, tracker, TRUE), force, TRUE)

\* a variant of the wait loop that has no budget
RepairWaitNoBudget ==
    /\ pc = "repair_wait"
    /\ LET still == SelectSeq(op.made_operational,
                        LAMBDA n : ~node_is_operational(n))
       IN IF still # <<>>
          THEN /\ op' = [op EXCEPT !.made_operational = still,
                                   !.time_waited = @ + WAIT_TIME]
               /\ UNCHANGED <<pc, result, dep, hist>>
          ELSE FinishWith(op.cmd, "ok", "", "returned", op.fixed_nodes)
    /\ UNCHANGED <<tracker, cloudVars>>

\* one iteration of the wait loop of repair_active_generation: the budget
\* is tested first, then the nodes are polled, then time.sleep(WAIT_TIME)
RepairWait ==
    /\ pc = "repair_wait"
    /\ IF op.time_waited > MAKE_OPERATIONAL_TIMEOUT
       THEN FinishWith(op.cmd, "raised", "WaitTimedOut", "timed_out",
                       op.made_operational)
       ELSE LET still == SelectSeq(op.made_operational,
                            LAMBDA n : ~node_is_operational(n))
            IN IF still # <<>>
               THEN /\ op' = [op EXCEPT !.made_operational = still,
                                        !.time_waited = @ + WAIT_TIME]
                    /\ UNCHANGED <<pc, result, dep, hist>>
               ELSE FinishWith(op.cmd, "ok", "", "returned", op.fixed_nodes)
    /\ UNCHANGED <<tracker, cloudVars>>

\* --------------------------------------------------- increment_generation
\* the increment command up to its call of increment_generation:
\* Deployment, verify_deployment_state
increment(confs) ==
    /\ pc = "idle"
    /\ LET d0 == Fresh(confs)
       IN IF verify_deployment_state_raises(d0, tracker)
          THEN /\ Finish("increment", "raised", "InconsistentGenerationIds",
                         None)
               /\ UNCHANGED tracker
          ELSE /\ tracker' = verify_deployment_state(d0, tracker, TRUE)
               /\ dep' = after_pending_gen_id(d0, tracker)
               /\ op' = [NoLocals EXCEPT !.cmd = "increment"]
               /\ pc' = "increment_check"
               /\ hist' = <<>>
               /\ UNCHANGED result
    /\ UNCHANGED cloudVars

\* increment_generation up to its writes: the precondition
\* pending_is_healthy() and the two listings
IncrementCheck ==
    /\ pc = "increment_check"
    /\ IF unhealthy_pending_raises(dep, tracker)
       THEN Finish("increment", "raised", "MoreThanOneMatchingNode", None)
       ELSE IF ~pending_is_healthy(dep, tracker)
       THEN Finish("increment", "raised", "PendingNotHealthy", None)
       ELSE /\ dep' = after_active_gen_id(dep, tracker)
            /\ op' = [op EXCEPT
                  !.active_nodes =
                     get_all_active_nodes(dep, tracker, Unfiltered),
                  !.pending_nodes =
                     get_all_pending_nodes(dep, tracker, Unfiltered)]
            /\ pc' = "increment_generation"
            /\ hist' = <<<<"passed", 0>>>>
            /\ UNCHANGED result
    /\ UNCHANGED <<tracker, cloudVars>>

\* for node in active_nodes: node.is_active_generation = 0; node.save()
IncrementClear ==
    /\ pc = "increment_generation"
    /\ op.active_nodes # <<>>
    /\ LET n == Head(op.active_nodes)
       IN /\ tracker' = save(tracker, [n EXCEPT !.rec.is_active_generation = 0])
          /\ hist' = Append(hist, <<"clear", n.idx>>)
    /\ op' = [op EXCEPT !.active_nodes = Tail(@)]
    /\ UNCHANGED <<cloudVars, dep, pc, result>>

\* for node in pending_nodes: node.is_active_generation = 1; node.save()
IncrementSet ==
    /\ pc = "increment_generation"
    /\ op.active_nodes = <<>>
    /\ op.pending_nodes # <<>>
    /\ LET n == Head(op.pending_nodes)
       IN /\ tracker' = save(tracker, [n EXCEPT !.rec.is_active_generation = 1])
          /\ hist' = Append(hist, <<"set", n.idx>>)
    /\ op' = [op EXCEPT !.pending_nodes = Tail(@)]
    /\ UNCHANGED <<cloudVars, dep, pc, result>>

\* self._active_gen_id += 1; self._pending_gen_id += 1: a TypeError when
\* the id is None
IncrementBump ==
    /\ pc = "increment_generation"
    /\ op.active_nodes = <<>>
    /\ op.pending_nodes = <<>>
    /\ IF dep.a = None
       THEN Finish("increment", "raised", "TypeError", None)
       ELSE /\ dep' = [dep EXCEPT !.a = @ + 1, !.p = @ + 1]
            /\ pc' = "increment_repair"
            /\ hist' = Append(hist, <<"bump", 0>>)
            /\ UNCHANGED <<result, op>>
    /\ UNCHANGED <<tracker, cloudVars>>

\* self.repair_active_generation()
IncrementRepair ==
    /\ pc = "increment_repair"
    /\ repair_active_generation("increment", dep, tracker, FALSE, TRUE)

\* --------------------------------------------------------------------- up
\* rds nodes are provisioned before ec2 nodes, each sorted by name
ProvisionOrder == <<<<"rds", "db">>, <<"ec2", "app">>, <<"ec2", "job">>,
                    <<"ec2", "web0">>, <<"ec2", "web1">>>>

\* the deployers in provisioning order; each keeps the node its constructor
\* looked up (BaseNodeDeployment.__init__: self.node = self.get_node())
Deployers(d, trk, is_active) ==
    LET roles == SelectSeq(ProvisionOrder, LAMBDA r : r \in d.confs)
    IN [i \in DOMAIN roles |->
          [role |-> roles[i],
           node |-> deployer_get_node(d, trk, roles[i], is_active)]]

\* the up command up to the provisioning loop: Deployment,
\* verify_deployment_state and one deployer per configured role
up(confs, is_active, force, interactive) ==
    /\ pc = "idle"
    /\ LET d0 == Fresh(confs)
           d1 == after_pending_gen_id(d0, tracker)
           trk == verify_deployment_state(d0, tracker, TRUE)
       IN IF verify_deployment_state_raises(d0, tracker)
          THEN /\ Finish("up", "raised", "InconsistentGenerationIds", None)
               /\ UNCHANGED tracker
          ELSE IF \E r \in confs : deployer_get_node_raises(d1, trk, r, is_active)
          THEN /\ Finish("up", "raised", "MoreThanOneMatchingNode", None)
               /\ tracker' = trk
          ELSE /\ tracker' = trk
               /\ dep' = after_deployer_get_node(d1, trk, is_active)
               /\ op' = [NoLocals EXCEPT
                     !.cmd = "up",
                     !.is_active = is_active,
                     !.force = (force \/ is_active),
                     !.interactive = interactive,
                     !.start_count =
                        Cardinality(operational_nodes(d1, trk, "ec2")),
                     !.todo = Deployers(d1, trk, is_active)]
               /\ pc' = "up_provision"
               /\ hist' = <<>>
               /\ UNCHANGED result
    /\ UNCHANGED cloudVars

\* deployer.ensure_node_created() for the next role: when the deployer has
\* no node, create_new_node launches an instance, registers it with
\* set_active_node / set_pending_node and looks it up with get_node()
UpProvision ==
    /\ pc = "up_provision"
    /\ op.todo # <<>>
    /\ LET role == Head(op.todo).role
           id == launch_id(dep, tracker, role, op.is_active)
           gen == set_node_gen_id(dep, tracker, op.is_active)
           trk == set_node(dep, tracker, role[1], role[2], gen, id,
                           op.is_active)
       IN IF Head(op.todo).node # NoNode
          THEN /\ op' = [op EXCEPT !.todo = Tail(@)]
               /\ UNCHANGED <<tracker, cloudVars, dep, pc, result, hist>>
          ELSE IF id = None \/ Len(trk) > MaxNodes
          THEN /\ Finish("up", "raised", "LaunchFailed", None)
               /\ UNCHANGED <<tracker, cloudVars>>
          ELSE /\ inst' = [inst EXCEPT ![id] =
                             IF role[1] = "ec2" THEN "running" ELSE "available"]
               /\ probe' = [probe EXCEPT ![id] = FALSE]
               /\ tracker' = trk
               /\ UNCHANGED <<lbIn, lbSvc, eip>>
               /\ IF deployer_get_node_raises(
                        after_set_node(dep, tracker, op.is_active), trk, role,
                        op.is_active)
                  THEN /\ result' = Result("up", "raised",
                                           "MoreThanOneMatchingNode", None)
                       /\ pc' = "done"
                       /\ op' = NoLocals
                       /\ dep' = after_set_node(dep, tracker, op.is_active)
                       /\ hist' = hist
                  ELSE /\ dep' = after_deployer_get_node(
                                    after_set_node(dep, tracker, op.is_active),
                                    trk, op.is_active)
                       /\ op' = [op EXCEPT !.todo = Tail(@)]
                       /\ UNCHANGED <<pc, result, hist>>

\* _order_ec2_deployers_by_priority
_order_ec2_deployers_by_priority(d, trk, is_active, roles) ==
    LET node(r) == deployer_get_node(d, trk, r, is_active)
        io_unhealthy == SelectSeq(roles, LAMBDA r :
            ~node_is_operational(node(r)) /\ ~node_is_healthy(node(r)))
        io_healthy == SelectSeq(roles, LAMBDA r :
            ~node_is_operational(node(r)) /\ node_is_healthy(node(r)))
        o_unhealthy == SelectSeq(roles, LAMBDA r :
            node_is_operational(node(r)) /\ ~node_is_healthy(node(r)))
        o_healthy == SelectSeq(roles, LAMBDA r :
            node_is_operational(node(r)) /\ node_is_healthy(node(r)))
    IN io_healthy \o io_unhealthy \o o_unhealthy \o o_healthy

\* the rds deployers have run; the ec2 deployers are put in deploy order
UpOrder ==
    /\ pc = "up_provision"
    /\ op.todo = <<>>
    /\ LET roles == SelectSeq(ProvisionOrder,
                        LAMBDA r : r \in dep.confs /\ r[1] = "ec2")
       IN IF \E r \in Range(roles) :
                deployer_get_node_raises(dep, tracker, r, op.is_active)
          THEN Finish("up", "raised", "MoreThanOneMatchingNode", None)
          ELSE IF \E r \in Range(roles) :
                deployer_get_node(dep, tracker, r, op.is_active) = NoNode
          THEN Finish("up", "raised", "AttributeError", None)
          ELSE /\ op' = [op EXCEPT !.todo =
                        _order_ec2_deployers_by_priority(dep, tracker,
                            op.is_active, roles)]
               /\ pc' = "up_rotate"
               /\ dep' = after_deployer_get_node(dep, tracker, op.is_active)
               /\ UNCHANGED <<result, hist>>
    /\ UNCHANGED <<tracker, cloudVars>>

\* every deployer has run
UpEnd ==
    /\ pc = "up_rotate"
    /\ op.todo = <<>>
    /\ Finish("up", "ok", "", None)
    /\ UNCHANGED <<tracker, cloudVars>>

\* ---------------------------------------------------- seamless_modification
auto_retries == 10

\* an event is recorded once, at its first occurrence
Record(h, e) == IF e \in Range(h) THEN h ELSE Append(h, e)

\* a variant of the redundancy check that only ever asks the operator: a
\* non-interactive run goes on
redundancy_check_prompt_only(d, trk, node, force_seamless, interactive, answer) ==
    IF node # NoNode /\ force_seamless
          /\ ~has_required_redundancy(d, trk, node)
          /\ interactive /\ answer # "Y"
    THEN "Declined"
    ELSE "go on"

\* the redundancy check at the head of seamless_modification: "go on",
\* or the reason of its exit(1).  answer is the operator's reply to
\* 'Continue anyway? (Y/N)'
redundancy_check(d, trk, node, force_seamless, interactive, answer) ==
    IF node # NoNode /\ force_seamless
          /\ ~has_required_redundancy(d, trk, node)
    THEN IF interactive
         THEN IF answer # "Y" THEN "Declined" ELSE "go on"
         ELSE "NonInteractive"
    ELSE "go on"

\* the other running, configured nodes of the type and generation of node
\* that are operational (by record, whatever their name)
operational_siblings(d, trk, node) ==
    {trk[j].aws_id : j \in {i \in DOMAIN trk :
        /\ i # node.idx
        /\ RoleOf(trk[i]) \in d.confs
        /\ trk[i].aws_type = node.rec.aws_type
        /\ trk[i].generation_id = node.rec.generation_id
        /\ trk[i].is_running = 1
        /\ is_operational(trk[i].aws_type, boto_instance(trk[i].aws_id),
                          deployment_info(RoleOf(trk[i])))}}

\* seamless_modification up to its yield, for the node of the next ec2
\* deployer: the redundancy check and the rotation out of operation
SmEnter(answer) ==
    /\ pc = "up_rotate"
    /\ op.todo # <<>>
    /\ LET node == deployer_get_node(dep, tracker, Head(op.todo), op.is_active)
           force_seamless == op.is_active
           check == redundancy_check(dep, tracker, node, force_seamless,
                                     op.interactive, answer)
           c == make_temporarily_inoperative(Cloud, node)
           entered == [op EXCEPT
               !.node = node, !.count = 0,
               !.attempts = 0, !.asked = 0, !.time_waited = 0,
               !.entry_operational = node_is_operational(node),
               !.entry_siblings = operational_siblings(dep, tracker, node)]
       IN IF deployer_get_node_raises(dep, tracker, Head(op.todo),
                                     op.is_active)
          THEN /\ Finish("up", "raised", "MoreThanOneMatchingNode", None)
               /\ UNCHANGED <<tracker, cloudVars>>
          ELSE IF check # "go on"
          THEN /\ Finish("up", "exit", check, node.rec.aws_id)
               /\ UNCHANGED <<tracker, cloudVars>>
          ELSE /\ IF node # NoNode /\ node_is_operational(node)
                  THEN /\ SetCloud(c)
                       /\ op' = [entered EXCEPT !.make_operational = TRUE]
                       /\ hist' = IF c.lbIn # lbIn
                                  THEN Record(hist, <<"deregister", node.rec.aws_id>>)
                                  ELSE hist
                  ELSE /\ op' = [entered EXCEPT !.make_operational = op.force]
                       /\ UNCHANGED <<cloudVars, hist>>
               /\ pc' = "sm_body"
               /\ UNCHANGED <<tracker, dep, result>>

\* the body of the with block, deployer.run(): the deploy leaves the
\* application answering its health check or not (ok), or it raises
SmBody(ok, raises) ==
    /\ pc = "sm_body"
    /\ IF raises
       THEN /\ Finish("up", "raised", "DeployFailed", None)
            /\ UNCHANGED <<tracker, cloudVars>>
       ELSE /\ probe' = [probe EXCEPT ![op.node.rec.aws_id] = ok]
            /\ hist' = Record(hist, <<"body", op.node.rec.aws_id>>)
            /\ pc' = "sm_restore"
            /\ UNCHANGED <<tracker, inst, lbIn, lbSvc, eip, dep, op, result>>

\* the rotation of this deployer is over; on to the next one
SmReturn ==
    /\ pc' = "up_rotate"
    /\ op' = [op EXCEPT !.todo = Tail(@), !.node = NoNode,
                        !.make_operational = FALSE, !.count = 0,
                        !.attempts = 0, !.asked = 0, !.time_waited = 0,
                        !.entry_operational = FALSE, !.entry_siblings = {}]
    /\ UNCHANGED <<tracker, dep, result>>

\* make_operational finds the elastic ip of the node's configuration
\* pointing somewhere else (or nowhere)
elastic_ip_elsewhere(c, n) ==
    /\ n.rec.aws_type = "ec2"
    /\ n.info.elastic_ip
    /\ c.eip # n.rec.aws_id

\* the restore loop once node.make_operational() has returned or raised and
\* left the cloud c: the first is_operational check, then time.sleep(1)
SmAttempted(c, h) ==
    /\ SetCloud(c)
    /\ hist' = h
    /\ IF is_operational_in(c, op.node)
       THEN SmReturn
       ELSE /\ pc' = "sm_wait"
            /\ op' = [op EXCEPT !.attempts = @ + 1, !.time_waited = @ + 1]
            /\ UNCHANGED <<tracker, dep, result>>

\* a variant of the restore attempt that hands the force_operational of the
\* command on to make_operational
SmRestoreForced ==
    /\ pc = "sm_restore"
    /\ IF ~op.make_operational
       THEN SmReturn /\ UNCHANGED <<cloudVars, hist>>
       ELSE LET n == op.node
                raises == make_operational_raises(Cloud, n, op.force)
                h == Record(hist, <<"restore", n.rec.aws_id>>)
            IN IF ~raises /\ elastic_ip_elsewhere(Cloud, n)
               THEN /\ eip' = None
                    /\ pc' = "eip_wait"
                    /\ hist' = h
                    /\ UNCHANGED <<tracker, inst, probe, lbIn, lbSvc, dep, op,
                                   result>>
               ELSE SmAttempted(
                       IF raises THEN Cloud ELSE make_operational(Cloud, n),
                       IF ~raises /\ n.info.loadbalancer
                       THEN Record(h, <<"register", n.rec.aws_id>>) ELSE h)

\* after the yield: nothing to restore, or one attempt of the restore loop
\* (make_operational without force, its exception swallowed).  An attempt
\* that has to move the elastic ip releases it and enters the loop that
\* waits for the new association
SmRestore ==
    /\ pc = "sm_restore"
    /\ IF ~op.make_operational
       THEN SmReturn /\ UNCHANGED <<cloudVars, hist>>
       ELSE LET n == op.node
                raises == make_operational_raises(Cloud, n, FALSE)
                h == Record(hist, <<"restore", n.rec.aws_id>>)
            IN IF ~raises /\ elastic_ip_elsewhere(Cloud, n)
               THEN /\ eip' = None
                    /\ pc' = "eip_wait"
                    /\ hist' = h
                    /\ UNCHANGED <<tracker, inst, probe, lbIn, lbSvc, dep, op,
                                   result>>
               ELSE SmAttempted(
                       IF raises THEN Cloud ELSE make_operational(Cloud, n),
                       IF ~raises /\ n.info.loadbalancer
                       THEN Record(h, <<"register", n.rec.aws_id>>) ELSE h)

\* one turn of the loop of make_operational that waits for the elastic ip:
\* use_ip, the address is read again, time.sleep(5).  took: the address now
\* points at the instance.  The loop keeps no count and no clock; the turns
\* are counted modulo two
EipWait(took) ==
    /\ pc = "eip_wait"
    /\ IF took
       THEN SmAttempted(
               make_operational(Cloud, op.node),
               IF op.node.info.loadbalancer
               THEN Record(hist, <<"register", op.node.rec.aws_id>>) ELSE hist)
       ELSE /\ op' = [op EXCEPT !.eip_turn = (@ + 1) % 2]
            /\ UNCHANGED <<tracker, cloudVars, dep, pc, result, hist>>

\* a variant of the wait that returns without the second check
SmWaitNoCheck ==
    /\ pc = "sm_wait"
    /\ SmReturn
    /\ UNCHANGED <<cloudVars, hist>>

\* a variant of the wait that asks the operator after the first failed
\* attempt
SmWaitAskAtOnce ==
    /\ pc = "sm_wait"
    /\ IF node_is_operational(op.node) THEN SmReturn
       ELSE /\ pc' = "sm_prompt"
            /\ UNCHANGED <<tracker, dep, op, result>>
    /\ UNCHANGED <<cloudVars, hist>>

\* after time.sleep(1): the second is_operational check, then an automatic
\* retry or the prompt
SmWait ==
    /\ pc = "sm_wait"
    /\ IF node_is_operational(op.node) THEN SmReturn
       ELSE IF op.count < auto_retries
       THEN /\ op' = [op EXCEPT !.count = @ + 1]
            /\ pc' = "sm_restore"
            /\ UNCHANGED <<tracker, dep, result>>
       ELSE /\ pc' = "sm_prompt"
            /\ UNCHANGED <<tracker, dep, op, result>>
    /\ UNCHANGED <<cloudVars, hist>>

\* a variant of the prompt in which Fail is taken for Ignore
SmPromptNeverFails(answer) ==
    /\ pc = "sm_prompt"
    /\ answer \in {"I", "F"}
    /\ SmReturn
    /\ hist' = Record(hist, <<"prompt", op.node.rec.aws_id>>)
    /\ UNCHANGED cloudVars

\* the operator's answer to 'Ignore/Retry/Fail (I/R/F)?'; an answer that
\* is none of the three is asked for again.  asked counts the answers that
\* kept the loop going
SmPrompt(answer) ==
    /\ pc = "sm_prompt"
    /\ IF answer = "R"
       THEN /\ op.asked < MaxAsk
            /\ pc' = "sm_restore"
            /\ op' = [op EXCEPT !.asked = @ + 1]
            /\ hist' = Record(hist, <<"prompt", op.node.rec.aws_id>>)
            /\ UNCHANGED <<tracker, dep, result>>
       ELSE IF answer = "I"
       THEN /\ SmReturn
            /\ hist' = Record(hist, <<"prompt", op.node.rec.aws_id>>)
       ELSE IF answer = "F"
       THEN /\ Finish("up", "exit", "Fail", None)
            /\ UNCHANGED tracker
       ELSE /\ op.asked < MaxAsk
            /\ op' = [op EXCEPT !.asked = @ + 1]
            /\ hist' = Record(hist, <<"prompt", op.node.rec.aws_id>>)
            /\ UNCHANGED <<tracker, dep, pc, result>>
    /\ UNCHANGED cloudVars

\* seamless_modification(None, deployment, force_operational=...) around a
\* body that changes nothing, on a Deployment of its own: without a node
\* there is no redundancy check and no rotation out
seamless_modification_nil(confs, force_operational) ==
    /\ pc = "idle"
    /\ dep' = Fresh(confs)
    /\ op' = [NoLocals EXCEPT !.cmd = "seamless_modification",
                              !.force = force_operational,
                              !.make_operational = force_operational]
    /\ pc' = "sm_nil_restore"
    /\ hist' = <<>>
    /\ UNCHANGED <<tracker, cloudVars, result>>

\* after the yield, without a node: nothing when make_operational is not
\* set, else repair_active_generation(force_operational,
\* wait_until_operational=False)
SmNilRestore ==
    /\ pc = "sm_nil_restore"
    /\ IF ~op.make_operational
       THEN /\ Finish("seamless_modification", "ok", "", None)
            /\ UNCHANGED cloudVars
       ELSE IF inoperational_active_raises(dep, tracker)
       THEN /\ Finish("seamless_modification", "raised",
                      IF active_gen_id_raises(dep, tracker)
                      THEN "InconsistentGenerationIds"
                      ELSE "MoreThanOneMatchingNode", None)
            /\ UNCHANGED cloudVars
       ELSE LET r == repair_loop(Cloud,
                        get_inoperational_active_nodes(dep, tracker),
                        op.force, <<>>)
            IN /\ SetCloud(r.c)
               /\ IF r.raised
                  THEN Finish("seamless_modification", "raised",
                              "MakeOperational", None)
                  ELSE /\ dep' = after_active_gen_id(dep, tracker)
                       /\ pc' = "sm_nil_check"
                       /\ hist' = Record(hist, <<"repair", 0>>)
                       /\ UNCHANGED <<op, result>>
    /\ UNCHANGED tracker

\* deployment.active_is_fully_operational() after the repair, and the
\* prompt when it is not: prompt_str % node, a string with no conversion
\* and an argument, is a TypeError
SmNilCheck ==
    /\ pc = "sm_nil_check"
    /\ IF active_is_fully_operational(dep, tracker)
       THEN Finish("seamless_modification", "ok", "", None)
       ELSE Finish("seamless_modification", "raised", "TypeError", None)
    /\ UNCHANGED <<tracker, cloudVars>>

\* --------------------------------------------------------------- override
\* the override command up to its loop over the configured roles
override(confs, is_active) ==
    /\ pc = "idle"
    /\ LET d0 == Fresh(confs)
       IN IF verify_deployment_state_raises(d0, tracker)
          THEN /\ Finish("override", "raised", "InconsistentGenerationIds",
                         None)
               /\ UNCHANGED tracker
          ELSE /\ tracker' = verify_deployment_state(d0, tracker, TRUE)
               /\ dep' = after_pending_gen_id(d0, tracker)
               /\ op' = [NoLocals EXCEPT !.cmd = "override",
                                         !.is_active = is_active,
                                         !.todo = conf_items(d0)]
               /\ pc' = "override"
               /\ hist' = <<>>
               /\ UNCHANGED result
    /\ UNCHANGED cloudVars

\* _override_node: the record the operator's answers produce
_override_node(d, trk, node, role, aws_id) ==
    LET n == IF node = NoNode THEN get_blank_node(role[1]) ELSE node
        active == active_gen_id(d, trk)
    IN [n EXCEPT !.rec =
          [aws_type |-> n.rec.aws_type, aws_id |-> aws_id, name |-> role[2],
           generation_id |-> IF active # None THEN active
                             ELSE pending_gen_id(d, trk),
           is_running |-> 1,
           is_active_generation |-> IF active # None THEN 1 ELSE 0]]

\* the next role of the override loop.  choice is what the operator's
\* answers amount to: "skip" (nothing is changed), "alter" (the record is
\* pointed at the instance aws_id) or "retire" (confirmed)
OverrideRole(choice, aws_id) ==
    /\ pc = "override"
    /\ op.todo # <<>>
    /\ LET role == Head(op.todo)
           node == deployer_get_node(dep, tracker, role, op.is_active)
           altered == _override_node(dep, tracker, node, role, aws_id)
           c == make_fully_inoperative(Cloud, node)
       IN IF deployer_get_node_raises(dep, tracker, role, op.is_active)
          THEN /\ Finish("override", "raised", "MoreThanOneMatchingNode", None)
               /\ UNCHANGED <<tracker, cloudVars>>
          ELSE IF choice = "alter"
          THEN IF ~live(Cloud, aws_id).exists
                  \/ AwsTypeOf(aws_id) # altered.rec.aws_type
               THEN /\ Finish("override", "raised", "AssertionError", None)
                    /\ UNCHANGED <<tracker, cloudVars>>
               ELSE IF ~node_is_actually_running(altered)
               THEN /\ Finish("override", "exit", "NotRunning", None)
                    /\ UNCHANGED <<tracker, cloudVars>>
               ELSE IF Len(save(tracker, altered)) > MaxNodes
               THEN /\ Finish("override", "raised", "TrackerFull", None)
                    /\ UNCHANGED <<tracker, cloudVars>>
               ELSE /\ tracker' = save(tracker, altered)
                    /\ op' = [op EXCEPT !.todo = Tail(@)]
                    /\ dep' = after_pending_gen_id(
                                 after_active_gen_id(dep, tracker), tracker)
                    /\ UNCHANGED <<cloudVars, pc, result, hist>>
          ELSE IF choice = "retire" /\ node # NoNode
          THEN /\ SetCloud(c)
               /\ tracker' = node_retire(c, tracker, node).trk
               /\ IF node_retire(c, tracker, node).exc # ""
                  THEN Finish("override", "raised", "ActiveOperational", None)
                  ELSE /\ op' = [op EXCEPT !.todo = Tail(@)]
                       /\ UNCHANGED <<dep, pc, result, hist>>
          ELSE /\ op' = [op EXCEPT !.todo = Tail(@)]
               /\ UNCHANGED <<tracker, cloudVars, dep, pc, result, hist>>

\* every role was offered
OverrideEnd ==
    /\ pc = "override"
    /\ op.todo = <<>>
    /\ Finish("override", "ok", "", None)
    /\ UNCHANGED <<tracker, cloudVars>>

\* -------------------------------------------------------------- terminate
\* the loop of the terminate command over the running nodes: each node is
\* made fully inoperative, then terminated (hard) or, for a soft
\* termination, node.newrelic_disable() is called, which no
\* InfrastructureNode has
RECURSIVE terminate_loop(_, _, _, _)
terminate_loop(c, trk, nodes, soft) ==
    IF nodes = <<>> THEN [c |-> c, trk |-> trk, exc |-> ""]
    ELSE LET n == Head(nodes)
             c1 == make_fully_inoperative(c, n)
             t == node_terminate(c1, trk, n)
         IN IF soft THEN [c |-> c1, trk |-> trk, exc |-> "AttributeError"]
            ELSE IF t.exc # "" THEN t
            ELSE terminate_loop(t.c, t.trk, Tail(nodes), soft)

\* the terminate command.  target is "ACTIVE", "PENDING" or "OLD"; confirm
\* is the operator's answer to 'Are you sure?'
terminate(confs, target, soft, confirm) ==
    /\ pc = "idle"
    /\ LET d0 == Fresh(confs)
           d1 == after_pending_gen_id(d0, tracker)
           possible_nodes ==
               IF target = "PENDING" THEN get_all_pending_nodes(d1, tracker, 1)
               ELSE get_all_old_nodes(d1, tracker, 1)
           trk == verify_running_state(tracker, possible_nodes)
           running_nodes == SelectSeq(possible_nodes,
               LAMBDA n : n.rec.is_running # 0 /\ node_is_actually_running(n))
           r == terminate_loop(Cloud, trk, running_nodes, soft)
       IN IF target = "ACTIVE"
          THEN /\ Finish("terminate", "exit", "ActiveTarget", None)
               /\ UNCHANGED <<tracker, cloudVars>>
          ELSE IF pending_gen_id_raises(d0, tracker)
          THEN /\ Finish("terminate", "raised", "InconsistentGenerationIds",
                         None)
               /\ UNCHANGED <<tracker, cloudVars>>
          ELSE IF running_nodes = <<>>
          THEN /\ Finish("terminate", "ok", "", 0)
               /\ tracker' = trk
               /\ UNCHANGED cloudVars
          ELSE IF ~confirm
          THEN /\ Finish("terminate", "exit", "NotConfirmed", None)
               /\ tracker' = trk
               /\ UNCHANGED cloudVars
          ELSE /\ tracker' = r.trk
               /\ SetCloud(r.c)
               /\ IF r.exc # ""
                  THEN Finish("terminate", "raised", r.exc, None)
                  ELSE Finish("terminate", "ok", "", Len(running_nodes))

\* ------------------------------------------------------- the environment
\* the application behind the health_check url starts or stops answering
EnvProbe(id) ==
    /\ pc = "idle"
    /\ inst[id] = "running"
    /\ probe' = [probe EXCEPT ![id] = ~@]
    /\ UNCHANGED <<tracker, inst, lbIn, lbSvc, eip, dep, pc, op, result, hist>>

\* an instance is lost outside of the tool (drift)
EnvLost(id) ==
    /\ pc = "idle"
    /\ inst[id] \in {"running", "available"}
    /\ inst' = [inst EXCEPT ![id] =
                  IF AwsTypeOf(id) = "ec2" THEN "terminated" ELSE "deleted"]
    /\ probe' = [probe EXCEPT ![id] = FALSE]
    /\ lbSvc' = lbSvc \ {id}
    /\ eip' = IF eip = id THEN None ELSE eip
    /\ UNCHANGED <<tracker, lbIn, dep, pc, op, result, hist>>

\* the load balancer starts to report a registered, running instance as
\* InService; the wait loops sleep to give it the time
EnvLbInService(id) ==
    /\ pc \in {"idle", "repair_wait", "sm_wait"}
    /\ id \in lbIn \ lbSvc
    /\ inst[id] = "running"
    /\ lbSvc' = lbSvc \cup {id}
    /\ UNCHANGED <<tracker, inst, probe, lbIn, eip, dep, pc, op, result, hist>>

\* the load balancer stops reporting an instance as InService
EnvLbOutOfService(id) ==
    /\ pc = "idle"
    /\ id \in lbSvc
    /\ lbSvc' = lbSvc \ {id}
    /\ UNCHANGED <<tracker, inst, probe, lbIn, eip, dep, pc, op, result, hist>>

\* ------------------------------------------------------------------- spec
\* the deployment_confs the commands of the generation runs are given: the
\* configuration of the day defines both roles or only one of them
GenConfs == {{<<"ec2", "web0">>, <<"ec2", "web1">>},
             {<<"ec2", "web0">>},
             {<<"ec2", "job">>}}

Next ==
    \/ Exit
    \/ \E confs \in GenConfs : view(confs)
    \/ \E confs \in GenConfs, is_active, interactive \in BOOLEAN :
          up(confs, is_active, FALSE, interactive)
    \/ UpProvision
    \/ UpOrder
    \/ UpEnd
    \/ \E answer \in {"Y", "N"} : SmEnter(answer)
    \/ \E ok, raises \in BOOLEAN : SmBody(ok, raises)
    \/ SmRestore
    \/ SmWait
    \/ \E answer \in {"I", "R", "F", "other"} : SmPrompt(answer)
    \/ \E confs \in GenConfs : repair(confs, FALSE)
    \/ RepairWait
    \/ \E confs \in GenConfs : increment(confs)
    \/ IncrementCheck
    \/ IncrementClear
    \/ IncrementSet
    \/ IncrementBump
    \/ IncrementRepair
    \/ \E confs \in GenConfs, target \in {"ACTIVE", "PENDING", "OLD"} :
          terminate(confs, target, FALSE, TRUE)
    \/ \E id \in AwsIds : EnvLbInService(id)

Spec == Init /\ [][Next]_vars

\* seamless_modification called without a node, between the commands
NextNil ==
    \/ Next
    \/ \E confs \in GenConfs, force_operational \in BOOLEAN :
          seamless_modification_nil(confs, force_operational)
    \/ SmNilRestore
    \/ SmNilCheck

SpecNil == Init /\ [][NextNil]_vars

\* deployments whose node owns the elastic ip
EipConfs == {{<<"ec2", "app">>}, {<<"ec2", "app">>, <<"ec2", "job">>}}

\* a step of the running command that is not an answer of the operator
Running ==
    \/ UpProvision
    \/ UpOrder
    \/ UpEnd
    \/ \E ok \in BOOLEAN : SmBody(ok, FALSE)
    \/ SmRestore
    \/ \E took \in BOOLEAN : EipWait(took)
    \/ SmWait

NextEip ==
    \/ Exit
    \/ \E confs \in EipConfs, is_active, interactive \in BOOLEAN :
          up(confs, is_active, FALSE, interactive)
    \/ \E answer \in {"Y", "N"} : SmEnter(answer)
    \/ \E answer \in {"I", "F"} : SmPrompt(answer)
    \/ Running

\* the process of a command runs on until it ends or asks the operator
SpecEip == Init /\ [][NextEip]_vars /\ WF_vars(Running)

\* the commands of an operator who also repairs the records by hand, on a
\* deployment with a database, while instances are lost outside of the tool
OpsConfs == {{<<"ec2", "web0">>, <<"rds", "db">>}, {<<"ec2", "web0">>}}

\* the instance id the operator types in at the prompt of _override_node:
\* that of the first instance that was launched
TypedIds == {CHOOSE id \in Ec2Ids : \A j \in Ec2Ids : id <= j}

NextOps ==
    \/ Exit
    \/ \E confs \in OpsConfs : view(confs)
    \/ \E confs \in OpsConfs, is_active \in BOOLEAN :
          up(confs, is_active, FALSE, TRUE)
    \/ UpProvision
    \/ UpOrder
    \/ UpEnd
    \/ SmEnter("Y")
    \/ SmBody(TRUE, FALSE)
    \/ SmRestore
    \/ SmWait
    \/ \E answer \in {"I", "F"} : SmPrompt(answer)
    \/ \E confs \in OpsConfs, force \in BOOLEAN : repair(confs, force)
    \/ RepairWait
    \/ \E confs \in OpsConfs : increment(confs)
    \/ IncrementCheck
    \/ IncrementClear
    \/ IncrementSet
    \/ IncrementBump
    \/ IncrementRepair
    \/ \E confs \in OpsConfs, target \in {"PENDING", "OLD"} :
          terminate(confs, target, FALSE, TRUE)
    \/ \E confs \in OpsConfs, is_active \in BOOLEAN : override(confs, is_active)
    \/ \E choice \in {"skip", "retire", "alter"}, aws_id \in TypedIds :
          OverrideRole(choice, aws_id)
    \/ OverrideEnd
    \/ \E id \in AwsIds : EnvLost(id)
    \/ \E id \in AwsIds : EnvLbInService(id)

SpecOps == Init /\ [][NextOps]_vars

\* ------------------------------------------------------------ properties
\* the generation ids that have a record flagged is_active_generation
active_generations(trk) ==
    {trk[i].generation_id :
        i \in {j \in DOMAIN trk : trk[j].is_active_generation = 1}}

\* the records of the tracker as nodes of the Deployment d
tracked_node(d, trk, i) == NodeObj(i, trk[i], deployment_info(RoleOf(trk[i])))

\* the cloud after the step
CloudNext ==
    [inst |-> inst', probe |-> probe', lbIn |-> lbIn', lbSvc |-> lbSvc',
     eip |-> eip']

\* the position of the event e in the history h
Pos(h, e) == CHOOSE k \in DOMAIN h : h[k] = e

\* C1: in every reachable state at most one generation id has a record
\* with is_active_generation = 1.
C1_OneActiveGeneration == Cardinality(active_generations(tracker)) <= 1

\* C2: a command that starts on a tracker in which records of two different
\* generations are flagged active, and that queries the active generation id
\* (every command but terminate of the ACTIVE target, which exits before any
\* query), ends with the "Inconsistent generation ids" exception: it returns
\* no generation id and changes neither the tracker nor the cloud.
C2_ConflictRaises ==
    [][(/\ pc = "idle"
        /\ pc' # "idle"
        /\ Cardinality(active_generations(tracker)) > 1
        /\ ~(result'.op = "terminate" /\ result'.exc = "ActiveTarget"))
       => (/\ pc' = "done"
           /\ result'.status = "raised"
           /\ result'.exc = "InconsistentGenerationIds"
           /\ result'.value = None
           /\ tracker' = tracker
           /\ UNCHANGED cloudVars)]_vars

\* a command has ended with the consistency error on a tracker with two
\* active generations
C2_Witness ==
    /\ pc = "done"
    /\ result.exc = "InconsistentGenerationIds"
    /\ Cardinality(active_generations(tracker)) > 1

\* C3: while a Deployment object lives, its pending generation id is its
\* active generation id plus one when an active generation exists, and 1
\* when none exists.
C3_PendingIsActivePlusOne ==
    (pc # "idle" /\ ~active_gen_id_raises(dep, tracker)) =>
        IF active_gen_id(dep, tracker) # None
        THEN pending_gen_id(dep, tracker) = active_gen_id(dep, tracker) + 1
        ELSE pending_gen_id(dep, tracker) = 1

\* some configured role has no running node in the pending generation, or
\* has one that is not healthy
pending_role_missing_or_unhealthy(d, trk) ==
    \E role \in d.confs :
        LET recs == {i \in DOMAIN trk :
                /\ RoleOf(trk[i]) = role
                /\ trk[i].generation_id = pending_gen_id(d, trk)
                /\ trk[i].is_running = 1}
        IN \/ recs = {}
           \/ \E i \in recs :
                ~is_healthy(trk[i].aws_type, boto_instance(trk[i].aws_id),
                            deployment_info(role))

\* C4: when a configured role of the pending generation is missing or
\* unhealthy, increment_generation raises, writes no record, and leaves the
\* active and pending generation ids of the Deployment as they were.
C4_UnhealthyPendingRaises ==
    [][(pc = "increment_check"
        /\ pending_role_missing_or_unhealthy(dep, tracker))
       => (/\ pc' = "done"
           /\ result'.op = "increment"
           /\ result'.status = "raised"
           /\ tracker' = tracker
           /\ active_gen_id(dep', tracker') = active_gen_id(dep, tracker)
           /\ pending_gen_id(dep', tracker') = pending_gen_id(dep, tracker))]_vars

\* an increment was refused for its pending generation, with records in
\* the tracker
C4_Witness ==
    /\ pc = "done"
    /\ result.op = "increment"
    /\ result.exc = "PendingNotHealthy"
    /\ tracker # <<>>
    /\ pending_role_missing_or_unhealthy(dep, tracker)

\* C5: when increment_generation has passed its precondition and finished
\* its record writes, every record of the former active generation has
\* is_active_generation = 0, every record of the former pending generation
\* has is_active_generation = 1, and the former pending generation is the
\* only one with flagged records.
C5_FlagsFlipped ==
    (pc = "increment_generation" /\ op.active_nodes = <<>>
        /\ op.pending_nodes = <<>>) =>
        /\ \A i \in DOMAIN tracker :
              /\ (dep.a # None /\ tracker[i].generation_id = dep.a)
                    => tracker[i].is_active_generation = 0
              /\ tracker[i].generation_id = dep.p
                    => tracker[i].is_active_generation = 1
        /\ active_generations(tracker) = {dep.p}

\* C6: an increment that passed its precondition does not end before it
\* has advanced both generation ids (after which it calls
\* repair_active_generation).
C6_IncrementRunsToEnd ==
    (pc = "done" /\ result.op = "increment"
        /\ <<"passed", 0>> \in Range(hist)) =>
        <<"bump", 0>> \in Range(hist)

\* C7: within increment_generation no clearing write follows a setting
\* write, the states in between have flagged records of at most one
\* generation, and once the clearing writes are done and no setting write
\* is yet issued no record is flagged.
C7_ClearsBeforeSets ==
    pc = "increment_generation" =>
        /\ \A k, l \in DOMAIN hist :
              (hist[k][1] = "set" /\ hist[l][1] = "clear") => l < k
        /\ Cardinality(active_generations(tracker)) <= 1
        /\ (op.active_nodes = <<>>
              /\ \A k \in DOMAIN hist : hist[k][1] # "set")
                 => active_generations(tracker) = {}

\* C8: for every configured node of the tracker, has_required_redundancy
\* is true exactly when another running, configured node of its type and
\* generation is operational.
C8_RedundancyIffSibling ==
    pc # "idle" =>
        \A i \in DOMAIN tracker :
            RoleOf(tracker[i]) \in dep.confs =>
                (has_required_redundancy(dep, tracker,
                                         tracked_node(dep, tracker, i))
                 <=> operational_siblings(dep, tracker,
                         tracked_node(dep, tracker, i)) # {})

\* C9: when seamless_modification is entered with force_seamless in a
\* non-interactive run for an operational node that lacks the required
\* redundancy, the run exits at once: the node is not taken out of
\* operation (the cloud is unchanged) and the body does not run.
C9_NonInteractiveAbort ==
    [][(/\ pc = "up_rotate"
        /\ op.todo # <<>>
        /\ op.is_active
        /\ ~op.interactive
        /\ ~deployer_get_node_raises(dep, tracker, Head(op.todo), TRUE)
        /\ deployer_get_node(dep, tracker, Head(op.todo), TRUE) # NoNode
        /\ node_is_operational(
              deployer_get_node(dep, tracker, Head(op.todo), TRUE))
        /\ ~has_required_redundancy(dep, tracker,
              deployer_get_node(dep, tracker, Head(op.todo), TRUE)))
       => (/\ pc' = "done"
           /\ result'.status = "exit"
           /\ hist' = hist
           /\ tracker' = tracker
           /\ UNCHANGED cloudVars)]_vars

\* a non-interactive run has exited at the redundancy check of a node that
\* is still in service behind the load balancer
C9_Witness ==
    /\ pc = "done"
    /\ result.status = "exit"
    /\ result.exc = "NonInteractive"
    /\ result.value \in lbIn \cap lbSvc

\* C10: when the rotation of a load-balanced node A that was operational
\* at entry, with an operational sibling B, returns normally and without a
\* prompt, A was deregistered, then the body ran, then A was registered
\* again, and A and B are operational.
C10_RotationOrder ==
    [][(/\ pc \in {"sm_restore", "sm_wait"}
        /\ pc' = "up_rotate"
        /\ op.entry_operational
        /\ op.entry_siblings # {}
        /\ op.node.info.loadbalancer
        /\ <<"prompt", op.node.rec.aws_id>> \notin Range(hist))
       => (/\ {<<"deregister", op.node.rec.aws_id>>,
               <<"body", op.node.rec.aws_id>>,
               <<"register", op.node.rec.aws_id>>} \subseteq Range(hist')
           /\ Pos(hist', <<"deregister", op.node.rec.aws_id>>)
                < Pos(hist', <<"body", op.node.rec.aws_id>>)
           /\ Pos(hist', <<"body", op.node.rec.aws_id>>)
                < Pos(hist', <<"register", op.node.rec.aws_id>>)
           /\ is_operational_in(CloudNext, op.node)
           /\ \A j \in DOMAIN tracker :
                 tracker[j].aws_id \in op.entry_siblings =>
                    is_operational_in(CloudNext,
                                      tracked_node(dep, tracker, j)))]_vars

\* a rotation has returned, without a prompt, for a node that went out of
\* and back into the load balancer beside a sibling in service
C10_Witness ==
    /\ pc = "up_rotate"
    /\ \E a, b \in lbIn \cap lbSvc :
          /\ a # b
          /\ <<"prompt", a>> \notin Range(hist)
          /\ {<<"deregister", a>>, <<"body", a>>, <<"register", a>>}
                \subseteq Range(hist)
          /\ Pos(hist, <<"deregister", a>>) < Pos(hist, <<"body", a>>)
          /\ Pos(hist, <<"body", a>>) < Pos(hist, <<"register", a>>)

\* the aws ids of the events of one kind in the history h
Ids(h, tag) == {h[k][2] : k \in {j \in DOMAIN h : h[j][1] = tag}}

\* the aws ids of a list of nodes
IdsOf(nodes) == {nodes[k].rec.aws_id : k \in DOMAIN nodes}

\* C11: in a non-interactive up run on the active generation, a rotation
\* calls make_temporarily_inoperative on its node only while another
\* running, configured node of the node's type and generation is
\* operational; and when the run started with two or more operational ec2
\* nodes in the active generation, at least one is operational in every
\* state of the run.
C11_NeverWithoutSibling ==
    /\ []((op.cmd = "up" /\ op.is_active /\ ~op.interactive
              /\ op.start_count >= 2)
            => operational_nodes(dep, tracker, "ec2") # {})
    /\ [][(/\ pc = "up_rotate"
           /\ pc' = "sm_body"
           /\ op.is_active
           /\ ~op.interactive
           /\ op'.entry_operational)
          => op'.entry_siblings # {}]_vars

\* a non-interactive run that started with two operational nodes has taken
\* one of them out of the load balancer and runs its body beside the other
C11_Witness ==
    /\ pc = "sm_body"
    /\ op.is_active
    /\ ~op.interactive
    /\ op.start_count >= 2
    /\ op.entry_operational
    /\ ~node_is_operational(op.node)
    /\ Cardinality(operational_nodes(dep, tracker, "ec2")) = 1

\* C12: when an up run has ended, in whatever way, every node it took out
\* of the load balancer has had a restoration attempt
\* (node.make_operational() of the restore loop).
C12_RestoreOnEveryExit ==
    (pc = "done" /\ result.op = "up") =>
        \A id \in AwsIds :
            <<"deregister", id>> \in Range(hist)
                => <<"restore", id>> \in Range(hist)

\* C13: in the restore loop, until the operator has answered a prompt, the
\* failed attempts number the automatic retries plus the first attempt,
\* each was followed by one sleep of a second, the retries never exceed
\* auto_retries, and the prompt is reached only with auto_retries + 1 failed
\* attempts; an attempt or a second check that finds the node operational
\* returns at once.
C13_PromptAfterRetries ==
    /\ []((pc \in {"sm_restore", "eip_wait", "sm_wait", "sm_prompt"}
              /\ op.make_operational /\ op.asked = 0)
            => /\ op.count <= auto_retries
               /\ op.attempts = op.count
                     + (IF pc \in {"sm_wait", "sm_prompt"} THEN 1 ELSE 0)
               /\ op.time_waited = op.attempts
               /\ (pc = "sm_prompt" =>
                     /\ op.count = auto_retries
                     /\ op.attempts = auto_retries + 1))
    /\ [][(pc = "sm_wait" /\ node_is_operational(op.node)
              /\ UNCHANGED cloudVars)
          => pc' = "up_rotate"]_vars
    /\ [][(pc \in {"sm_restore", "eip_wait"} /\ op.make_operational
              /\ is_operational_in(CloudNext, op.node))
          => pc' = "up_rotate"]_vars

\* the operator is asked for the first time, after the first attempt and
\* auto_retries retries have failed
C13_Witness ==
    /\ pc = "sm_prompt"
    /\ op.asked = 0
    /\ op.attempts = auto_retries + 1
    /\ op.time_waited = auto_retries + 1

\* C14: at the prompt of the restore loop, Ignore returns from the
\* rotation with the cloud as it is (the node not operational) and the run
\* goes on with the next deployer; Retry goes back to the head of the loop,
\* where every step is a make_operational attempt followed by the
\* operational check; Fail ends the process by exit(1); any other answer
\* leaves everything as it is and asks again.
C14_AnswersDistinct ==
    /\ [][\A answer \in {"I", "R", "F", "other"} :
            SmPrompt(answer) =>
                IF answer = "I"
                THEN /\ pc' = "up_rotate"
                     /\ op'.todo = Tail(op.todo)
                     /\ ~is_operational_in(CloudNext, op.node)
                     /\ UNCHANGED <<tracker, cloudVars>>
                ELSE IF answer = "R"
                THEN /\ pc' = "sm_restore"
                     /\ op'.make_operational
                     /\ op'.node = op.node
                     /\ op'.todo = op.todo
                     /\ UNCHANGED <<tracker, cloudVars>>
                ELSE IF answer = "F"
                THEN /\ pc' = "done"
                     /\ result'.status = "exit"
                     /\ UNCHANGED <<tracker, cloudVars>>
                ELSE /\ pc' = "sm_prompt"
                     /\ op' = [op EXCEPT !.asked = @ + 1]
                     /\ UNCHANGED <<tracker, cloudVars, dep, result>>]_vars
    /\ [][(pc = "sm_restore" /\ op.make_operational)
          => /\ <<"restore", op.node.rec.aws_id>> \in Range(hist')
             /\ pc' \in {"up_rotate", "sm_wait", "eip_wait"}]_vars

\* the operator has answered Retry and the loop is back at its head
C14_Witness ==
    /\ pc = "sm_restore"
    /\ op.asked = 1
    /\ op.count = auto_retries

\* C15: seamless_modification entered without a node never ends with a
\* TypeError at its prompt, and returns normally only with the active
\* generation fully operational (no Ignore can have been answered: the
\* prompt is never shown).
C15_NilRepairsUntilOperational ==
    (pc = "done" /\ result.op = "seamless_modification") =>
        /\ result.exc # "TypeError"
        /\ (result.status = "ok" => active_is_fully_operational(dep, tracker))

\* C16: an up run aborts at the redundancy check of seamless_modification
\* (non-interactive, or declined by the operator) only for a node that is
\* operational.
C16_CheckOnlyWhenOperational ==
    (pc = "done" /\ result.op = "up"
        /\ result.exc \in {"NonInteractive", "Declined"}) =>
        \E i \in DOMAIN tracker :
            /\ tracker[i].aws_id = result.value
            /\ node_is_operational(tracked_node(dep, tracker, i))

\* C17: a call of repair_active_generation on a fully operational active
\* generation (by the repair command after verify_deployment_state, or at
\* the end of increment_generation) returns the empty list, writes no
\* record and changes nothing in the cloud, so that the generation is
\* still fully operational for the next call.
C17_RepairIdempotent ==
    /\ [][(pc = "increment_repair"
              /\ active_is_fully_operational(dep, tracker))
          => (/\ pc' = "done"
              /\ result'.status = "ok"
              /\ result'.value = 0
              /\ Ids(hist', "returned") = {}
              /\ tracker' = tracker
              /\ UNCHANGED cloudVars)]_vars
    /\ [][\A confs \in GenConfs :
            (/\ repair(confs, FALSE)
             /\ ~verify_deployment_state_raises(Fresh(confs), tracker)
             /\ active_is_fully_operational(
                   after_pending_gen_id(Fresh(confs), tracker),
                   verify_deployment_state(Fresh(confs), tracker, TRUE)))
            => (/\ pc' = "done"
                /\ result'.status = "ok"
                /\ result'.value = 0
                /\ Ids(hist', "returned") = {}
                /\ tracker' =
                      verify_deployment_state(Fresh(confs), tracker, TRUE)
                /\ UNCHANGED cloudVars)]_vars

\* an increment has ended with a repair that had nothing to do, on a
\* generation with nodes
C17_Witness ==
    /\ pc = "done"
    /\ result.op = "increment"
    /\ result.status = "ok"
    /\ result.value = 0
    /\ dep.confs # {}
    /\ active_is_fully_operational(dep, tracker)
    /\ operational_nodes(dep, tracker, "ec2") # {}

\* the inoperational active nodes that have an instance and are healthy
\* (or forced)
eligible(d, trk, force_operational) ==
    SelectSeq(get_inoperational_active_nodes(d, trk),
        LAMBDA n : n.rec.aws_id # None
                     /\ (node_is_healthy(n) \/ force_operational))

\* the cloud after make_operational on every node of a list
RECURSIVE make_all_operational(_, _)
make_all_operational(c, nodes) ==
    IF nodes = <<>> THEN c
    ELSE make_all_operational(make_operational(c, Head(nodes)), Tail(nodes))

\* what C18 says of one call of repair_active_generation on d and trk
repairs_exactly_eligible(d, trk) ==
    /\ CloudNext = make_all_operational(Cloud, eligible(d, trk, FALSE))
    /\ tracker' = trk
    /\ pc' \in {"done", "repair_wait"}
    /\ (pc' = "done" =>
          /\ result'.status = "ok"
          /\ Ids(hist', "returned") = IdsOf(eligible(d, trk, FALSE)))
    /\ (pc' = "repair_wait" =>
          op'.fixed_nodes = eligible(d, trk, FALSE))

\* C18: a call of repair_active_generation (not forced) leaves the cloud
\* as make_operational on exactly the inoperational active nodes that have
\* an instance and are healthy leaves it, and the list it returns (or
\* waits for) is the list of those nodes.
C18_RepairsExactlyEligible ==
    /\ [][(pc = "increment_repair"
              /\ ~inoperational_active_raises(dep, tracker))
          => repairs_exactly_eligible(dep, tracker)]_vars
    /\ [][\A confs \in GenConfs :
            (/\ repair(confs, FALSE)
             /\ ~verify_deployment_state_raises(Fresh(confs), tracker)
             /\ ~inoperational_active_raises(
                   after_pending_gen_id(Fresh(confs), tracker),
                   verify_deployment_state(Fresh(confs), tracker, TRUE)))
            => repairs_exactly_eligible(
                   after_pending_gen_id(Fresh(confs), tracker),
                   verify_deployment_state(Fresh(confs), tracker, TRUE))]_vars

\* C19: the wait loop of repair_active_generation polls every WAIT_TIME
\* seconds; it returns the acted-on nodes once all report operational, and
\* once the time waited exceeds MAKE_OPERATIONAL_TIMEOUT (at
\* MAKE_OPERATIONAL_TIMEOUT + WAIT_TIME) it raises WaitTimedOut naming the
\* acted-on nodes that were not operational at the last poll.
C19_WaitEnds ==
    /\ [](pc = "repair_wait" =>
            /\ op.time_waited <= MAKE_OPERATIONAL_TIMEOUT + WAIT_TIME
            /\ op.time_waited % WAIT_TIME = 0
            /\ IdsOf(op.made_operational) \subseteq IdsOf(op.fixed_nodes))
    /\ [][(pc = "repair_wait" /\ UNCHANGED cloudVars) =>
            IF op.time_waited > MAKE_OPERATIONAL_TIMEOUT
            THEN /\ pc' = "done"
                 /\ result'.exc = "WaitTimedOut"
                 /\ Ids(hist', "timed_out") = IdsOf(op.made_operational)
            ELSE IF \A k \in DOMAIN op.made_operational :
                        node_is_operational(op.made_operational[k])
            THEN /\ pc' = "done"
                 /\ result'.status = "ok"
                 /\ Ids(hist', "returned") = IdsOf(op.fixed_nodes)
            ELSE /\ pc' = "repair_wait"
                 /\ op'.time_waited = op.time_waited + WAIT_TIME
                 /\ IdsOf(op'.made_operational) =
                       {n.rec.aws_id : n \in {m \in Range(op.made_operational) :
                                                 ~node_is_operational(m)}}]_vars

\* a repair has timed out
C19_Witness ==
    /\ pc = "done"
    /\ result.exc = "WaitTimedOut"
    /\ Ids(hist, "timed_out") # {}

\* C19 as stated: the nodes WaitTimedOut names are exactly the acted-on
\* nodes that are not operational when it is raised.
C19_NamesStillInoperative ==
    [][(pc = "repair_wait" /\ pc' = "done" /\ result'.exc = "WaitTimedOut")
       => Ids(hist', "timed_out") =
             {n.rec.aws_id : n \in {m \in Range(op.fixed_nodes) :
                                       ~node_is_operational(m)}}]_vars

\* C20: a command that is in one of its polling loops (the repair wait,
\* the restore loop, the elastic ip loop of make_operational) leaves it:
\* it ends, asks the operator, or goes on with the next deployer.
C20_LoopsEnd ==
    (pc \in {"repair_wait", "sm_restore", "sm_wait", "eip_wait"})
        ~> (pc \in {"done", "sm_prompt", "up_rotate"})

\* the process running increment_generation is killed between two of its
\* record writes: the writes made so far stay in the tracker, the
\* Deployment and the lists of the run are gone
IncrementInterrupted ==
    /\ pc = "increment_generation"
    /\ \E k \in DOMAIN hist : hist[k][1] \in {"clear", "set"}
    /\ op.active_nodes # <<>> \/ op.pending_nodes # <<>>
    /\ pc' = "idle"
    /\ result' = NoResult
    /\ dep' = NoDeployment
    /\ op' = NoLocals
    /\ hist' = <<<<"interrupted", 0>>>>
    /\ UNCHANGED <<tracker, cloudVars>>

\* the commands of NextOps with runs of increment_generation that may be
\* interrupted
NextCrash ==
    \/ NextOps
    \/ IncrementInterrupted

SpecCrash == Init /\ [][NextCrash]_vars

\* ------------------------------------------------ health and operation
\* the elastic ip and the load balancer of the node's configuration are
\* placed on the node
placed(n) ==
    /\ n.info.elastic_ip => eip = n.rec.aws_id
    /\ n.info.loadbalancer =>
          n.rec.aws_id \in lbIn /\ n.rec.aws_id \in lbSvc

\* a running compute node with the configured key whose health_check url
\* answers without the marker
fails_probe(n) ==
    LET b == boto_instance(n.rec.aws_id)
    IN /\ n.rec.aws_type = "ec2"
       /\ b.exists
       /\ b.state = "running"
       /\ b.key_name = n.info.keypair
       /\ n.info.health_check
       /\ b.public_dns_name
       /\ b.probe = "no_marker"

\* C21 (as amended): is_healthy ignores the placement and is_operational
\* ignores the health probe.  An operational node whose probe passes is
\* healthy; a running node with the configured key whose probe fails is not
\* healthy, wherever the elastic ip and the load balancer are, and it is
\* operational exactly when its configured elastic ip and load balancer
\* are placed on it.
C21_HealthIgnoresPlacement ==
    \A i \in DOMAIN tracker :
        LET n == tracked_node(dep, tracker, i)
            b == boto_instance(n.rec.aws_id)
        IN /\ (node_is_operational(n) /\ passes_health_check(b, n.info))
                 => node_is_healthy(n)
           /\ fails_probe(n)
                 => /\ ~node_is_healthy(n)
                    /\ node_is_operational(n) <=> placed(n)

\* a node in service in the load balancer whose probe fails
C21_Witness ==
    \E i \in DOMAIN tracker :
        LET n == tracked_node(dep, tracker, i)
        IN /\ fails_probe(n)
           /\ n.info.loadbalancer
           /\ n.rec.aws_id \in lbSvc
           /\ node_is_operational(n)
           /\ ~node_is_healthy(n)

\* C21 (as stated): every operational node is healthy.
C21_OperationalImpliesHealthy ==
    \A i \in DOMAIN tracker :
        LET n == tracked_node(dep, tracker, i)
        IN node_is_operational(n) => node_is_healthy(n)

\* ------------------------------------------------- the termination guard
\* the node is flagged active and is operational
active_and_operational(n) ==
    n.rec.is_active_generation # 0 /\ node_is_operational(n)

\* C22: terminate() and retire() called on a node that is flagged active
\* and is operational raise, release no resource and leave the tracker as
\* it is; an override that ends with this exception has changed neither
\* the cloud nor the tracker.
C22_GuardRefuses ==
    /\ [](\A i \in DOMAIN tracker :
            LET n == tracked_node(dep, tracker, i)
                refused == [c |-> Cloud, trk |-> tracker,
                            exc |-> "ActiveOperational"]
            IN active_and_operational(n) =>
                  /\ node_terminate(Cloud, tracker, n) = refused
                  /\ node_retire(Cloud, tracker, n) = refused)
    /\ [][(pc = "override" /\ pc' = "done"
              /\ result'.exc = "ActiveOperational")
            => (tracker' = tracker /\ CloudNext = Cloud)]_vars

\* a retirement was refused: the node is still flagged active, operational
\* and running by its record
C22_Witness ==
    /\ result.op = "override"
    /\ result.exc = "ActiveOperational"
    /\ \E i \in DOMAIN tracker :
          /\ active_and_operational(tracked_node(dep, tracker, i))
          /\ tracker[i].is_running = 1

\* C23: a node that is in the active generation and operational when the
\* operator confirms its retirement, or when the terminate command reaches
\* it, keeps its load balancer registration, its elastic ip and
\* is_running = 1.
C23_RejectedBeforeMutation ==
    [][\A i \in DOMAIN tracker :
          LET n == tracked_node(dep, tracker, i)
          IN (/\ pc \in {"override", "idle"}
              /\ (pc = "idle" => pc' = "done" /\ result'.op = "terminate")
              /\ active_and_operational(n)
              /\ n.rec.is_running = 1)
             => /\ tracker'[i].is_running = 1
                /\ (n.rec.aws_id \in lbIn) => (n.rec.aws_id \in lbIn')
                /\ (eip = n.rec.aws_id) => (eip' = n.rec.aws_id)]_vars

\* ------------------------------------------- make_operational's precondition
\* the node does not meet the precondition of an unforced make_operational
unfit(n) == ~node_is_healthy(n) \/ n.rec.is_active_generation = 0

\* the step neither registers the node in the load balancer nor points the
\* elastic ip at it nor takes the elastic ip away from where it is
untouched(n) ==
    /\ (n.rec.aws_id \in lbIn') => (n.rec.aws_id \in lbIn)
    /\ (eip' = n.rec.aws_id) => (eip = n.rec.aws_id)

\* the nodes a repair started with the configuration confs finds
\* inoperational, after its verify_deployment_state
found_inoperational(confs) ==
    Range(get_inoperational_active_nodes(
              after_pending_gen_id(Fresh(confs), tracker),
              verify_deployment_state(Fresh(confs), tracker, TRUE)))

\* C24: make_operational without force raises exactly when the node is not
\* healthy or not flagged active, and with force it never raises.  A restore
\* or an unforced repair that meets such a node neither registers it in the
\* load balancer nor moves the elastic ip to it (unless another record of
\* the same instance meets the precondition), and the restore moves
\* nothing at all; a forced repair never fails on the precondition and
\* registers every inoperational node it finds, healthy and flagged or not.
C24_PreconditionUnlessForced ==
    /\ [](\A i \in DOMAIN tracker :
            LET n == tracked_node(dep, tracker, i)
            IN /\ make_operational_raises(Cloud, n, FALSE) <=> unfit(n)
               /\ ~make_operational_raises(Cloud, n, TRUE))
    /\ [][(pc = "sm_restore" /\ op.make_operational /\ unfit(op.node))
            => (lbIn' = lbIn /\ eip' = eip)]_vars
    /\ [][\A confs \in OpsConfs :
            repair(confs, FALSE) =>
                \A n \in found_inoperational(confs) :
                    (\A m \in found_inoperational(confs) :
                        m.rec.aws_id = n.rec.aws_id => unfit(m))
                        => untouched(n)]_vars
    /\ [][\A confs \in OpsConfs :
            (repair(confs, TRUE) /\ result'.exc # "InconsistentGenerationIds"
                                /\ result'.exc # "MoreThanOneMatchingNode") =>
                /\ result'.exc # "MakeOperational"
                /\ \A n \in found_inoperational(confs) :
                      (n.rec.aws_id # None /\ n.info.loadbalancer)
                          => n.rec.aws_id \in lbIn']_vars

\* an unforced repair has failed on a healthy node that is not flagged
\* active, and the node is not in the load balancer
C24_Witness ==
    /\ result.op = "repair"
    /\ result.exc = "MakeOperational"
    /\ \E i \in DOMAIN tracker :
          LET n == tracked_node(dep, tracker, i)
          IN /\ unfit(n)
             /\ n.info.loadbalancer
             /\ n.rec.aws_id \notin lbIn

\* ------------------------------------------------------ the node records
\* C25: a record with is_running = 0 keeps is_running = 0, whatever
\* operation runs.
C25_NeverResurrected ==
    [][\A i \in DOMAIN tracker :
          tracker[i].is_running = 0 => tracker'[i].is_running = 0]_vars

\* the step belongs to the flips of increment_generation or to the manual
\* override
flips_or_overrides == pc \in {"increment_generation", "override"}

gone(trk, i) ==
    /\ trk[i].is_running = 1
    /\ ~is_actually_running(trk[i].aws_type, boto_instance(trk[i].aws_id))

\* the tracker trk with the record i marked as not running
marked(trk, i) == [trk EXCEPT ![i] = [trk[i] EXCEPT !.is_running = 0]]

\* the records of the roles the configuration defines
configured(confs, trk) == {i \in DOMAIN trk : RoleOf(trk[i]) \in confs}

\* the tracker a full sweep leaves: the configured records that are gone
\* are marked, nothing else is written
swept(confs, trk) ==
    [i \in DOMAIN trk |->
        IF i \in configured(confs, trk) /\ gone(trk, i)
        THEN [trk[i] EXCEPT !.is_running = 0] ELSE trk[i]]

sweeping_start(confs) ==
    /\ pc = "idle"
    /\ \/ \E is_active \in BOOLEAN : up(confs, is_active, FALSE, TRUE)
       \/ \E force \in BOOLEAN : repair(confs, force)
       \/ increment(confs)
       \/ \E is_active \in BOOLEAN : override(confs, is_active)

\* a run of the terminate command that went as far as its loop
terminating(confs, target) ==
    /\ terminate(confs, target, FALSE, TRUE)
    /\ result'.status # "exit"
    /\ result'.exc # "InconsistentGenerationIds"

\* the records of the generations the terminate command is aimed at
targeted(confs, target, trk) ==
    LET d == after_pending_gen_id(Fresh(confs), trk)
    IN {i \in configured(confs, trk) :
          IF target = "PENDING"
          THEN trk[i].generation_id = pending_gen_id(d, trk)
          ELSE /\ trk[i].generation_id # active_gen_id(d, trk)
               /\ trk[i].generation_id # pending_gen_id(d, trk)}

\* C28 (as amended): up, repair, increment and override sweep the pending,
\* the active and the old generations before anything else: their first
\* step leaves the tracker swept, a run that fails on the generation ids
\* has changed nothing, and no lost node is put in operation.  terminate
\* sweeps the generations it is aimed at: the lost nodes among them are
\* marked and their records are the only ones it writes besides those of
\* the nodes it terminates.
C28_SweepBeforeMutation ==
    /\ [][\A confs \in OpsConfs :
            sweeping_start(confs) =>
                IF result'.exc = "InconsistentGenerationIds"
                THEN tracker' = tracker /\ CloudNext = Cloud
                ELSE /\ tracker' = swept(confs, tracker)
                     /\ \A i \in configured(confs, tracker) :
                           gone(tracker, i) =>
                              untouched(tracked_node(dep, tracker, i))]_vars
    /\ [][\A confs \in OpsConfs, target \in {"PENDING", "OLD"} :
            terminating(confs, target) =>
                /\ \A i \in targeted(confs, target, tracker) :
                      gone(tracker, i) => tracker'[i].is_running = 0
                /\ \A i \in DOMAIN tracker \ targeted(confs, target, tracker) :
                      tracker'[i] = tracker[i]]_vars

\* a terminate run has terminated nodes while the record of a lost node of
\* another generation still says running
C28_Witness ==
    /\ result.op = "terminate"
    /\ result.status = "ok"
    /\ result.value > 0
    /\ \E i \in DOMAIN tracker :
          /\ gone(tracker, i)
          /\ RoleOf(tracker[i]) \in {<<"ec2", "web0">>}

\* C28 (as stated): the terminate command, too, has swept the pending, the
\* active and the old generations when it terminates its first node.
C28_TerminateSweepsAll ==
    [][\A confs \in OpsConfs, target \in {"PENDING", "OLD"} :
          (terminating(confs, target) /\ result'.value # 0) =>
              \A i \in configured(confs, tracker) :
                  gone(tracker, i) => tracker'[i].is_running = 0]_vars

\* the repair command that ended was started right after an interrupted
\* increment_generation
recovered == pc = "done" /\ result.op = "repair" /\ hist # <<>> /\ hist[1] = <<"interrupted", 0>>

\* C29: the repair command (verify_deployment_state, then
\* repair_active_generation) run right after an interrupted
\* increment_generation ends without an exception; running out of the
\* waiting time for the load balancer is left aside.
C29_RecoveryCompletes ==
    recovered => result.exc \in {"", "WaitTimedOut"}

\* ------------------------------------------------------ concurrent runs
\* Two increment commands run at the same time as two processes on the same
\* deployment name.  Each has its own Deployment, with its own cached
\* generation ids, and its own lists of nodes; the tracker and the cloud are
\* shared and there is no lock.  While they run pc is "race" and op holds
\* the two processes.
RaceConfs == {<<"ec2", "web0">>}

Runs == 1 .. 2

\* a process that has not started its command yet
NoRun(confs) ==
    [pc |-> "idle", dep |-> Fresh(confs), active_nodes |-> <<>>,
     pending_nodes |-> <<>>, made_operational |-> <<>>, time_waited |-> 0,
     exc |-> ""]

\* the process ends, normally or by the uncaught exception exc
Ended(r, exc) == [r EXCEPT !.pc = "done", !.exc = exc]

\* the process has read the tracker for its command and has not made the
\* last of its record writes yet
busy(r) == r.pc \in {"increment_check", "increment_generation"}

\* the two processes are started
RaceBegin ==
    /\ pc = "idle"
    /\ pc' = "race"
    /\ op' = [cmd |-> "race", runs |-> [k \in Runs |-> NoRun(RaceConfs)],
              overlap |-> FALSE]
    /\ hist' = <<>>
    /\ UNCHANGED <<tracker, cloudVars, dep, result>>

\* the increment command of the process k up to its call of
\* increment_generation: verify_deployment_state on its own Deployment
RunIncrement(k) ==
    /\ pc = "race"
    /\ op.runs[k].pc = "idle"
    /\ LET r == op.runs[k]
       IN IF verify_deployment_state_raises(r.dep, tracker)
          THEN /\ tracker' = tracker
               /\ op' = [op EXCEPT
                     !.runs[k] = Ended(r, "InconsistentGenerationIds")]
          ELSE /\ tracker' = verify_deployment_state(r.dep, tracker, TRUE)
               /\ op' = [op EXCEPT
                     !.runs[k] = [r EXCEPT
                         !.dep = after_pending_gen_id(r.dep, tracker),
                         !.pc = "increment_check"],
                     !.overlap = @ \/ \E j \in Runs \ {k} : busy(op.runs[j])]
    /\ UNCHANGED <<cloudVars, dep, pc, result, hist>>

\* increment_generation of the process k up to its writes: the
\* precondition, then the two listings, which read active_gen_id
RunCheck(k) ==
    /\ pc = "race"
    /\ op.runs[k].pc = "increment_check"
    /\ LET r == op.runs[k]
       IN op' = [op EXCEPT !.runs[k] =
             IF unhealthy_pending_raises(r.dep, tracker)
             THEN Ended(r, "MoreThanOneMatchingNode")
             ELSE IF ~pending_is_healthy(r.dep, tracker)
             THEN Ended(r, "PendingNotHealthy")
             ELSE IF active_gen_id_raises(r.dep, tracker)
             THEN Ended(r, "InconsistentGenerationIds")
             ELSE [r EXCEPT
                     !.dep = after_active_gen_id(r.dep, tracker),
                     !.active_nodes =
                        get_all_active_nodes(r.dep, tracker, Unfiltered),
                     !.pending_nodes =
                        get_all_pending_nodes(r.dep, tracker, Unfiltered),
                     !.pc = "increment_generation"]]
    /\ UNCHANGED <<tracker, cloudVars, dep, pc, result, hist>>

\* the next node.save() of the first loop of the process k
RunClear(k) ==
    /\ pc = "race"
    /\ op.runs[k].pc = "increment_generation"
    /\ op.runs[k].active_nodes # <<>>
    /\ LET n == Head(op.runs[k].active_nodes)
       IN tracker' = save(tracker, [n EXCEPT !.rec.is_active_generation = 0])
    /\ op' = [op EXCEPT !.runs[k].active_nodes = Tail(@)]
    /\ UNCHANGED <<cloudVars, dep, pc, result, hist>>

\* the next node.save() of the second loop of the process k
RunSet(k) ==
    /\ pc = "race"
    /\ op.runs[k].pc = "increment_generation"
    /\ op.runs[k].active_nodes = <<>>
    /\ op.runs[k].pending_nodes # <<>>
    /\ LET n == Head(op.runs[k].pending_nodes)
       IN tracker' = save(tracker, [n EXCEPT !.rec.is_active_generation = 1])
    /\ op' = [op EXCEPT !.runs[k].pending_nodes = Tail(@)]
    /\ UNCHANGED <<cloudVars, dep, pc, result, hist>>

\* self._active_gen_id += 1; self._pending_gen_id += 1 of the process k
RunBump(k) ==
    /\ pc = "race"
    /\ op.runs[k].pc = "increment_generation"
    /\ op.runs[k].active_nodes = <<>>
    /\ op.runs[k].pending_nodes = <<>>
    /\ LET r == op.runs[k]
       IN op' = [op EXCEPT !.runs[k] =
             IF r.dep.a = None THEN Ended(r, "TypeError")
             ELSE [r EXCEPT !.dep = [r.dep EXCEPT !.a = @ + 1, !.p = @ + 1],
                            !.pc = "increment_repair"]]
    /\ UNCHANGED <<tracker, cloudVars, dep, pc, result, hist>>

\* self.repair_active_generation() of the process k, up to its wait loop
RunRepair(k) ==
    /\ pc = "race"
    /\ op.runs[k].pc = "increment_repair"
    /\ LET r == op.runs[k]
           d == r.dep
           l == repair_loop(Cloud, get_inoperational_active_nodes(d, tracker),
                            FALSE, <<>>)
       IN IF inoperational_active_raises(d, tracker)
          THEN /\ op' = [op EXCEPT !.runs[k] =
                     Ended(r, IF active_gen_id_raises(d, tracker)
                              THEN "InconsistentGenerationIds"
                              ELSE "MoreThanOneMatchingNode")]
               /\ UNCHANGED cloudVars
          ELSE IF active_is_fully_operational(d, tracker)
          THEN /\ op' = [op EXCEPT !.runs[k] = Ended(r, "")]
               /\ UNCHANGED cloudVars
          ELSE /\ SetCloud(l.c)
               /\ op' = [op EXCEPT !.runs[k] =
                     IF l.raised THEN Ended(r, "MakeOperational")
                     ELSE IF l.made = <<>> THEN Ended(r, "")
                     ELSE [r EXCEPT !.made_operational = l.made,
                                    !.time_waited = 0,
                                    !.pc = "repair_wait"]]
    /\ UNCHANGED <<tracker, dep, pc, result, hist>>

\* one iteration of the wait loop of repair_active_generation of the
\* process k
RunWait(k) ==
    /\ pc = "race"
    /\ op.runs[k].pc = "repair_wait"
    /\ LET r == op.runs[k]
           still == SelectSeq(r.made_operational,
                              LAMBDA n : ~node_is_operational(n))
       IN op' = [op EXCEPT !.runs[k] =
             IF r.time_waited > MAKE_OPERATIONAL_TIMEOUT
             THEN Ended(r, "WaitTimedOut")
             ELSE IF still # <<>>
             THEN [r EXCEPT !.made_operational = still,
                            !.time_waited = @ + WAIT_TIME]
             ELSE Ended(r, "")]
    /\ UNCHANGED <<tracker, cloudVars, dep, pc, result, hist>>

\* both processes have ended
RaceEnd ==
    /\ pc = "race"
    /\ \A k \in Runs : op.runs[k].pc = "done"
    /\ result' = Result("race",
                        IF \A k \in Runs : op.runs[k].exc = ""
                        THEN "ok" ELSE "raised",
                        IF op.runs[1].exc # "" THEN op.runs[1].exc
                        ELSE op.runs[2].exc, None)
    /\ pc' = "done"
    /\ op' = NoLocals
    /\ UNCHANGED <<tracker, cloudVars, dep, hist>>

\* commands that run one at a time, and pairs of increment commands that
\* run at the same time
NextRace ==
    \/ Exit
    \/ \E is_active \in BOOLEAN : up(RaceConfs, is_active, FALSE, TRUE)
    \/ UpProvision
    \/ UpOrder
    \/ UpEnd
    \/ SmEnter("Y")
    \/ SmBody(TRUE, FALSE)
    \/ SmRestore
    \/ SmWait
    \/ \E answer \in {"I", "F"} : SmPrompt(answer)
    \/ increment(RaceConfs)
    \/ IncrementCheck
    \/ IncrementClear
    \/ IncrementSet
    \/ IncrementBump
    \/ IncrementRepair
    \/ RepairWait
    \/ \E id \in AwsIds : EnvLbInService(id)
    \/ RaceBegin
    \/ \E k \in Runs : RunIncrement(k)
    \/ \E k \in Runs : RunCheck(k)
    \/ \E k \in Runs : RunClear(k)
    \/ \E k \in Runs : RunSet(k)
    \/ \E k \in Runs : RunBump(k)
    \/ \E k \in Runs : RunRepair(k)
    \/ \E k \in Runs : RunWait(k)
    \/ RaceEnd

SpecRace == Init /\ [][NextRace]_vars

\* the tracker has nodes of two generations flagged as active
two_active_generations(trk) == Cardinality(active_generations(trk)) >= 2

\* C30: a step flags a node of a second generation as active only as a
\* write of one of two concurrent runs that overlapped (one read the
\* tracker for its flips while the other had not finished its own); runs
\* one after the other never do; and overlapping runs can.
C30_OnlyOverlappingRunsCorrupt ==
    [][(~two_active_generations(tracker) /\ two_active_generations(tracker'))
          => (pc = "race" /\ op.overlap)]_vars

\* two concurrent runs, each with generation ids of its own, have written
\* their flips and the tracker has two generations flagged as active
C30_Witness ==
    /\ pc = "race"
    /\ op.overlap
    /\ \A k \in Runs : op.runs[k].pc \in {"increment_generation", "increment_repair", "repair_wait", "done"}
    /\ op.runs[1].dep.p # op.runs[2].dep.p
    /\ two_active_generations(tracker)

\* ------------------------------------------------ the terminate command
\* the commands of NextOps, with the terminate command on every target,
\* hard and soft, confirmed or not
NextTerm ==
    \/ NextOps
    \/ \E confs \in OpsConfs, target \in {"ACTIVE", "PENDING", "OLD"}, soft, confirm \in BOOLEAN : terminate(confs, target, soft, confirm)

SpecTerm == Init /\ [][NextTerm]_vars

\* the step takes the resource id out of the load balancer, takes the
\* elastic ip away from it or releases it
acted_on(id) ==
    \/ id \in lbIn /\ id \notin lbIn'
    \/ eip = id /\ eip' # id
    \/ inst'[id] # inst[id]

\* the record i is one the terminate command may act on: it is not of the
\* active generation, not flagged, and running after the sweep
terminable(confs, trk, i) ==
    /\ trk[i].generation_id # active_gen_id(Fresh(confs), trk)
    /\ trk[i].is_active_generation = 0
    /\ trk[i].is_running = 1
    /\ ~gone(trk, i)

\* C31: the terminate command with the target ACTIVE exits and changes
\* nothing; with the target PENDING or OLD every resource it takes out of
\* operation or releases, and every record it marks as terminated, belongs
\* to a node that is not of the active generation and runs after the sweep.
C31_TerminateSparesActive ==
    [][\A confs \in OpsConfs, target \in {"ACTIVE", "PENDING", "OLD"}, soft, confirm \in BOOLEAN :
          terminate(confs, target, soft, confirm) =>
             /\ target = "ACTIVE" =>
                   /\ result'.status = "exit"
                   /\ tracker' = tracker
                   /\ CloudNext = Cloud
             /\ \A id \in AwsIds :
                   acted_on(id) =>
                      \E i \in DOMAIN tracker :
                          /\ tracker[i].aws_id = id
                          /\ terminable(confs, tracker, i)
             /\ \A i \in DOMAIN tracker :
                   (tracker[i].is_running = 1 /\ tracker'[i].is_running = 0
                      /\ ~gone(tracker, i))
                   => terminable(confs, tracker, i)]_vars

\* a terminate command has terminated nodes while an active generation
\* with a node in the load balancer exists, and that node is still there
C31_Witness ==
    /\ result.op = "terminate"
    /\ result.status = "ok"
    /\ result.value > 0
    /\ \E i \in DOMAIN tracker :
          /\ tracker[i].is_active_generation = 1
          /\ tracker[i].is_running = 1
          /\ tracker[i].aws_id \in lbIn
    /\ \E i \in DOMAIN tracker :
          /\ tracker[i].is_active_generation = 0
          /\ tracker[i].is_running = 0
          /\ inst[tracker[i].aws_id] = "terminated"

\* ------------------------------------------------- the neckbeard command
\* run_commands(command, environment, configuration_directory).  The
\* configuration directory is given by what the loader finds in it: whether
\* its files load and agree, and how many environment files it holds; the
\* environments are named 1 .. n.
MaxEnvs == 3

COMMANDS == {"check", "up", "view"}

INVALID_COMMAND_OPTIONS == 2

\* NeckbeardLoader.configuration_is_valid: a directory without an
\* environment file is a validation error ('missing_environment')
configuration_is_valid(files_ok, n) == files_ok /\ n > 0

\* configuration.get_available_environments()
get_available_environments(n) == 1 .. n

\* what the command does once it is called on the environment e: check
\* dumps the configuration of e (a KeyError when there is none); do_up
\* calls up and do_view calls view with keyword arguments that they do not
\* take (a TypeError)
do_command(command, e, n) ==
    IF command = "check"
    THEN IF e \in get_available_environments(n) THEN "" ELSE "KeyError"
    ELSE "TypeError"

\* run_commands: the code it returns (None when it raises), the command it
\* called and on what environment, and the exception that left it
run_commands(command, environment, files_ok, n) ==
    LET e == IF environment # None THEN environment
             ELSE CHOOSE x \in get_available_environments(n) : TRUE
    IN IF ~configuration_is_valid(files_ok, n)
       THEN [code |-> 1, called |-> <<>>, exc |-> ""]
       ELSE IF environment = None /\ Cardinality(get_available_environments(n)) # 1
       THEN [code |-> INVALID_COMMAND_OPTIONS, called |-> <<>>, exc |-> ""]
       ELSE IF do_command(command, e, n) # ""
       THEN [code |-> None, called |-> <<<<command, e>>>>,
             exc |-> do_command(command, e, n)]
       ELSE [code |-> 0, called |-> <<<<command, e>>>>, exc |-> ""]

\* the calls of run_commands: any command, no environment or a name, any
\* configuration directory
CliInputs ==
    [cmd : {"run_commands"}, command : COMMANDS,
     environment : {None} \cup (1 .. MaxEnvs), files_ok : BOOLEAN,
     environments : 0 .. MaxEnvs]

InitCli ==
    /\ tracker = <<>>
    /\ inst = [id \in AwsIds |-> "none"]
    /\ probe = [id \in AwsIds |-> FALSE]
    /\ lbIn = {}
    /\ lbSvc = {}
    /\ eip = None
    /\ dep = NoDeployment
    /\ pc = "run_commands"
    /\ op \in CliInputs
    /\ result = NoResult
    /\ hist = <<>>

RunCommands ==
    /\ pc = "run_commands"
    /\ LET r == run_commands(op.command, op.environment, op.files_ok,
                             op.environments)
       IN /\ result' = Result("run_commands",
                              IF r.exc = "" THEN "ok" ELSE "raised",
                              r.exc, r.code)
          /\ hist' = r.called
    /\ pc' = "done"
    /\ UNCHANGED <<tracker, cloudVars, dep, op>>

NextCli == RunCommands

SpecCli == InitCli /\ [][NextCli]_vars

\* C32: run_commands called without an environment on a configuration
\* directory whose files load returns
\* INVALID_COMMAND_OPTIONS and calls no command when the configuration
\* defines a number of environments other than one; when it defines
\* exactly one, the command is called on that environment and run_commands
\* returns 0.
C32_EnvironmentOptionalIfOnlyOne ==
    (pc = "done" /\ result.op = "run_commands" /\ op.environment = None /\ op.files_ok) =>
        IF op.environments # 1
        THEN result.value = INVALID_COMMAND_OPTIONS /\ hist = <<>>
        ELSE /\ hist = <<<<op.command, 1>>>>
             /\ result.status = "ok"
             /\ result.value = 0

\* --------------------------------------------- Deployment.__init__ (aws)
\* The resources of deployment_confs, in the order in which
\* _get_valid_aws_credentials meets them.  A resource configuration is
\* given by its 'aws' section: absent, or the values of its two keys
\* (None for a key that is absent or null).
MaxRes == 2

KeyValues == {None, 1, 2}

NoAws == [aws |-> FALSE, access_key_id |-> None, secret_access_key |-> None]

ResourceConfigs ==
    {NoAws} \cup [aws : {TRUE}, access_key_id : KeyValues, secret_access_key : KeyValues]

\* a variant of the test of one key that does not compare it with the
\* value seen on other resources
key_error_no_compare(seen, value) ==
    IF value = None THEN "MissingAWSCredentials" ELSE ""

\* the test of one key of one resource against the value seen before
key_error(seen, value) ==
    IF value = None THEN "MissingAWSCredentials"
    ELSE IF seen # None /\ value # seen THEN "NonUniformAWSCredentials"
    ELSE ""

\* _get_valid_aws_credentials: the exception it raises, or the credentials
RECURSIVE _get_valid_aws_credentials(_, _)
_get_valid_aws_credentials(confs, seen) ==
    IF confs = <<>> THEN [exc |-> "", credentials |-> seen]
    ELSE LET c == Head(confs)
             e1 == key_error(seen.access_key_id, c.access_key_id)
             e2 == key_error(seen.secret_access_key, c.secret_access_key)
         IN IF ~c.aws
            THEN [exc |-> "MissingAWSCredentials", credentials |-> seen]
            ELSE IF e1 # "" THEN [exc |-> e1, credentials |-> seen]
            ELSE IF e2 # ""
            THEN [exc |-> e2,
                  credentials |-> [seen EXCEPT !.access_key_id = c.access_key_id]]
            ELSE _get_valid_aws_credentials(Tail(confs),
                     [access_key_id |-> c.access_key_id,
                      secret_access_key |-> c.secret_access_key])

\* the sequences of at most n resource configurations
RECURSIVE ConfSeqs(_)
ConfSeqs(n) ==
    IF n = 0 THEN {<<>>}
    ELSE ConfSeqs(n - 1) \cup
         {Append(s, c) : s \in {t \in ConfSeqs(n - 1) : Len(t) = n - 1},
                         c \in ResourceConfigs}

InitAws ==
    /\ tracker = <<>>
    /\ inst = [id \in AwsIds |-> "none"]
    /\ probe = [id \in AwsIds |-> FALSE]
    /\ lbIn = {}
    /\ lbSvc = {}
    /\ eip = None
    /\ dep = NoDeployment
    /\ pc = "Deployment"
    /\ op \in [cmd : {"Deployment"}, confs : ConfSeqs(MaxRes)]
    /\ result = NoResult
    /\ hist = <<>>

\* Deployment(...): the credentials are validated, then the two
\* connections are created with them
Construct ==
    /\ pc = "Deployment"
    /\ LET r == _get_valid_aws_credentials(op.confs,
                    [access_key_id |-> None, secret_access_key |-> None])
       IN IF r.exc # ""
          THEN /\ result' = Result("Deployment", "raised", r.exc, None)
               /\ hist' = <<>>
          ELSE /\ result' = Result("Deployment", "ok", "", None)
               /\ hist' = <<<<"EC2Connection", r.credentials.access_key_id>>,
                            <<"RDSConnection", r.credentials.access_key_id>>>>
    /\ pc' = "done"
    /\ UNCHANGED <<tracker, cloudVars, dep, op>>

SpecAws == InitAws /\ [][Construct]_vars

\* a resource without an 'aws' section or without a value for a key
missing_credentials(confs) ==
    \E k \in DOMAIN confs :
        \/ ~confs[k].aws
        \/ confs[k].access_key_id = None
        \/ confs[k].secret_access_key = None

\* two resources with different values for a key
differing_credentials(confs) ==
    \E j, k \in DOMAIN confs :
        /\ confs[j].aws /\ confs[k].aws
        /\ \/ /\ confs[j].access_key_id # None
              /\ confs[k].access_key_id # None
              /\ confs[j].access_key_id # confs[k].access_key_id
           \/ /\ confs[j].secret_access_key # None
              /\ confs[k].secret_access_key # None
              /\ confs[j].secret_access_key # confs[k].secret_access_key

\* C33: Deployment(...) succeeds exactly when every resource has both keys
\* and all resources agree on them; it raises MissingAWSCredentials when
\* something is missing and nothing differs, NonUniformAWSCredentials when
\* something differs and nothing is missing, one of the two when both
\* happen, and it creates a connection only when it succeeds.
C33_CredentialsValidated ==
    (pc = "done" /\ result.op = "Deployment") =>
        LET m == missing_credentials(op.confs)
            d == differing_credentials(op.confs)
        IN /\ result.exc = "" <=> (~m /\ ~d)
           /\ (m /\ ~d) => result.exc = "MissingAWSCredentials"
           /\ (d /\ ~m) => result.exc = "NonUniformAWSCredentials"
           /\ result.exc \in {"", "MissingAWSCredentials", "NonUniformAWSCredentials"}
           /\ result.exc # "" => hist = <<>>
           /\ result.exc = "" => Len(hist) = 2

\* two complete resources that differ in the secret key only were refused
C33_Witness ==
    /\ pc = "done"
    /\ result.exc = "NonUniformAWSCredentials"
    /\ Len(op.confs) = 2
    /\ op.confs[1].access_key_id = op.confs[2].access_key_id
    /\ hist = <<>>

\* ------------------------------------------------- lookups between commands
\* the generation ids a caller may ask for
LookupGens == 1 .. 3

\* deployment.get_node(aws_type, node_name, generation_id, is_running) on a
\* Deployment built for the configuration confs, between two commands
GetNode(confs, role, generation_id, is_running) ==
    /\ pc = "idle"
    /\ LET d == Fresh(confs)
           m == get_node_matching(tracker, role[1], role[2], generation_id,
                                  is_running)
       IN result' =
             IF ~get_node_raises(d, tracker, role[1], role[2], generation_id,
                                 is_running)
             THEN Result("get_node", "ok", "",
                         get_node(d, tracker, role[1], role[2], generation_id,
                                  is_running).idx)
             ELSE Result("get_node", "raised",
                         IF Cardinality(m) > 1 THEN "MoreThanOneMatchingNode"
                         ELSE "KeyError", None)
    /\ op' = [NoLocals EXCEPT !.cmd = "get_node",
                              !.node = NodeObj(generation_id, [BlankRec(role[1]) EXCEPT !.name = role[2], !.is_running = is_running], NoInfo)]
    /\ pc' = "done"
    /\ hist' = <<>>
    /\ UNCHANGED <<tracker, cloudVars, dep>>

\* the commands of NextOps, and lookups between them
NextLookup ==
    \/ NextOps
    \/ \E confs \in OpsConfs, role \in {<<"ec2", "web0">>, <<"rds", "db">>}, g \in LookupGens, r \in {0, 1} : GetNode(confs, role, g, r)

SpecLookup == Init /\ [][NextLookup]_vars

\* the records that match the lookup that ended
looked_up ==
    get_node_matching(tracker, op.node.rec.aws_type, op.node.rec.name,
                      op.node.idx, op.node.rec.is_running)

\* C34: get_node returns the record that matches its arguments when there
\* is exactly one, None when there is none, and raises 'More than one
\* matching node' when there are several.
C34_ExactLookup ==
    (pc = "done" /\ result.op = "get_node") =>
        /\ Cardinality(looked_up) = 0 =>
              result.status = "ok" /\ result.value = NoNode.idx
        /\ Cardinality(looked_up) = 1 =>
              result.status = "ok" /\ result.value \in looked_up
        /\ Cardinality(looked_up) > 1 =>
              result.exc = "MoreThanOneMatchingNode"

\* ------------------------------------------- the inoperative active nodes
\* the running records of the active generation that fill the role r
running_active(d, trk, r) ==
    {i \in DOMAIN trk :
        /\ active_gen_id(d, trk) # None
        /\ trk[i].generation_id = active_gen_id(d, trk)
        /\ trk[i].is_running = 1
        /\ RoleOf(trk[i]) = r}

\* what the listing holds for the role r
listed_for(d, trk, r) ==
    SelectSeq(get_inoperational_active_nodes(d, trk),
              LAMBDA n : RoleOf(n.rec) = r)

\* C35: for every configuration and every reachable tracker and cloud in
\* which the lookups do not raise, get_inoperational_active_nodes holds,
\* for each configured role, one placeholder without a resource id when no
\* running record of the active generation fills the role, the node itself
\* when it fills the role and is not operational, and nothing when it is
\* operational; it holds nothing for any other role; and
\* active_is_fully_operational is true exactly when every configured role is
\* filled by a running, operational node of the active generation (so it is
\* false when there is no active generation and a role is configured).
C35_MissingAndInoperativeListed ==
    \A confs \in OpsConfs :
        LET d == Fresh(confs)
            listing == get_inoperational_active_nodes(d, tracker)
        IN ~inoperational_active_raises(d, tracker) =>
            /\ \A r \in confs :
                  LET fill == running_active(d, tracker, r)
                  IN IF fill = {}
                     THEN /\ Len(listed_for(d, tracker, r)) = 1
                          /\ listed_for(d, tracker, r)[1].rec.aws_id = None
                          /\ listed_for(d, tracker, r)[1].idx = None
                     ELSE \A i \in fill :
                            IF node_is_operational(tracked_node(d, tracker, i))
                            THEN listed_for(d, tracker, r) = <<>>
                            ELSE listed_for(d, tracker, r)
                                     = <<tracked_node(d, tracker, i)>>
            /\ \A k \in DOMAIN listing : RoleOf(listing[k].rec) \in confs
            /\ active_is_fully_operational(d, tracker)
                  <=> \A r \in confs :
                         \E i \in running_active(d, tracker, r) :
                            node_is_operational(tracked_node(d, tracker, i))
            /\ (active_gen_id(d, tracker) = None /\ confs # {}
                  => ~active_is_fully_operational(d, tracker))

\* the listing of a two-role configuration holds a placeholder for the
\* missing database and the inoperative web node itself
C35_Witness ==
    LET d == Fresh({<<"ec2", "web0">>, <<"rds", "db">>})
        listing == get_inoperational_active_nodes(d, tracker)
    IN /\ ~inoperational_active_raises(d, tracker)
       /\ Len(listing) = 2
       /\ listing[1].idx # None
       /\ listing[2].idx = None
       /\ ~active_is_fully_operational(d, tracker)
       /\ active_is_fully_operational(Fresh({<<"ec2", "web0">>}), tracker) = FALSE

\* ----------------------------------------------------- generation labels
\* the tracker items a listing holds
Items(nodes) == {nodes[k].idx : k \in DOMAIN nodes}

\* the three listings of the Deployment d partition its configured nodes
labels_partition(d, trk) ==
    LET active == Items(get_all_active_nodes(d, trk, Unfiltered))
        pending == Items(get_all_pending_nodes(d, trk, Unfiltered))
        old == Items(get_all_old_nodes(d, trk, Unfiltered))
        all == Items(get_all_nodes(d, trk, None, Unfiltered))
    IN /\ active \cap pending = {}
       /\ active \cap old = {}
       /\ pending \cap old = {}
       /\ active \cup pending \cup old = all
       /\ \A i \in all :
             i \in old <=> /\ trk[i].generation_id # active_gen_id(d, trk)
                           /\ trk[i].generation_id # pending_gen_id(d, trk)

\* C36: in every reachable state in which the generation ids can be read,
\* the listings get_all_active_nodes, get_all_pending_nodes and
\* get_all_old_nodes of the Deployment object in use are pairwise disjoint,
\* their union is get_all_nodes(), and a node is listed as old exactly when
\* its generation id is neither the active nor the pending one.
C36_LabelsPartition ==
    ~active_gen_id_raises(dep, tracker) => labels_partition(dep, tracker)

\* ------------------------------------------ make_temporarily_inoperative
\* the tracked node i with its configuration, and with a configuration
\* that names no balancer
as_configured(i) == tracked_node(Fresh({}), tracker, i)
without_balancer(i) ==
    [as_configured(i) EXCEPT !.info.loadbalancer = FALSE]

\* what one call and a second call of make_temporarily_inoperative do to
\* the cloud c for the node n
rotates_out_once(c, n) ==
    LET c1 == make_temporarily_inoperative(c, n)
        registered == /\ n.rec.aws_type = "ec2"
                      /\ n.info.loadbalancer
                      /\ live(c, n.rec.aws_id).exists
                      /\ n.rec.aws_id \in c.lbIn
    IN /\ c1.eip = c.eip
       /\ c1.inst = c.inst
       /\ c1.probe = c.probe
       /\ IF registered
          THEN /\ c1.lbIn = c.lbIn \ {n.rec.aws_id}
               /\ n.rec.aws_id \in c.lbIn
          ELSE c1 = c
       /\ make_temporarily_inoperative(c1, n) = c1

\* C37: in every reachable cloud and for every tracked node,
\* make_temporarily_inoperative takes the node out of the balancer only when
\* it is a compute node, a balancer is configured and the instance is
\* registered in it; otherwise, and always for a database node and for a
\* compute node without a configured balancer, it changes nothing; it never
\* changes the elastic ip, the instances or the tracker; a second call
\* after the first changes nothing.  The rotation step of up changes the
\* cloud exactly as one call for its node does, and leaves the tracker alone.
C37_TemporarilyInoperativeIdempotent ==
    /\ \A i \in DOMAIN tracker :
          /\ rotates_out_once(Cloud, as_configured(i))
          /\ rotates_out_once(Cloud, without_balancer(i))
          /\ make_temporarily_inoperative(Cloud, without_balancer(i)) = Cloud
          /\ (tracker[i].aws_type = "rds" =>
                make_temporarily_inoperative(Cloud, as_configured(i)) = Cloud)
    /\ (pc = "sm_body" /\ \E e \in Range(hist) : e[1] = "deregister") =>
          /\ op.node.rec.aws_id \notin lbIn
          /\ make_temporarily_inoperative(Cloud, op.node) = Cloud

\* up has rotated a registered web node out of the balancer, the tracker
\* also holds a database node, and a second call would change nothing
C37_Witness ==
    /\ pc = "sm_body"
    /\ <<"deregister", op.node.rec.aws_id>> \in Range(hist)
    /\ op.node.rec.aws_id \notin lbIn
    /\ make_temporarily_inoperative(Cloud, op.node) = Cloud
    /\ \E i \in DOMAIN tracker : tracker[i].aws_type = "rds"

\* ------------------------------------- is_operational / is_healthy queries
\* the deployment info attached to the node: none, a dictionary without
\* the 'aws' entry, one whose 'aws' entry has no 'keypair', the full one
ConfShapes == {"none", "no_aws", "no_keypair", "full"}

attached_info(role, shape) ==
    IF shape = "none" THEN NoInfo ELSE deployment_info(role)

\* self._deployment_info['aws']['keypair'] of is_operational and is_healthy:
\* reached for a compute node with a live instance and some deployment info
keypair_raises(aws_type, b, shape) ==
    /\ b.exists
    /\ aws_type = "ec2"
    /\ shape \in {"no_aws", "no_keypair"}

\* node.is_operational or node.is_healthy is read between two commands on
\* the tracked node i, to which the deployment info of the shape was attached
NodeProperty(which, i, shape) ==
    /\ pc = "idle"
    /\ i \in DOMAIN tracker
    /\ LET n == NodeObj(i, tracker[i],
                        attached_info(RoleOf(tracker[i]), shape))
           b == live(Cloud, n.rec.aws_id)
           value == IF which = "is_operational" THEN node_is_operational(n)
                    ELSE node_is_healthy(n)
       IN /\ result' = IF keypair_raises(n.rec.aws_type, b, shape)
                       THEN Result(which, "raised", "KeyError", None)
                       ELSE Result(which, "ok", "", IF value THEN 1 ELSE 0)
          /\ op' = [NoLocals EXCEPT !.cmd = shape, !.node = n]
    /\ pc' = "done"
    /\ hist' = <<>>
    /\ UNCHANGED <<tracker, cloudVars, dep>>

\* the commands of NextOps, and property reads between them
NextProperty ==
    \/ NextOps
    \/ \E which \in {"is_operational", "is_healthy"}, i \in 1 .. MaxNodes,
          shape \in ConfShapes : NodeProperty(which, i, shape)

SpecProperty == Init /\ [][NextProperty]_vars

\* C38: a read of is_operational or is_healthy never raises, and it returns
\* false when no deployment info is attached to the node, when the info of
\* a compute node lacks the 'aws' entry or its 'keypair', or when the node
\* has no live resource.
C38_PropertiesNeverRaise ==
    (pc = "done" /\ result.op \in {"is_operational", "is_healthy"}) =>
        /\ result.status = "ok"
        /\ (\/ op.cmd = "none"
            \/ /\ op.cmd \in {"no_aws", "no_keypair"}
               /\ op.node.rec.aws_type = "ec2"
            \/ ~live(Cloud, op.node.rec.aws_id).exists) => result.value = 0

\* ------------------------------------------------------------ deploy order
\* the place of the role's node in the order the docstring of
\* _order_ec2_deployers_by_priority gives: inoperative unhealthy,
\* inoperative healthy, operational unhealthy, operational healthy
documented_rank(d, trk, is_active, r) ==
    LET node == deployer_get_node(d, trk, r, is_active)
    IN (IF node_is_operational(node) THEN 2 ELSE 0)
       + (IF node_is_healthy(node) THEN 1 ELSE 0)

\* the position of the role in the configured order
configured_position(r) ==
    CHOOSE k \in DOMAIN ProvisionOrder : ProvisionOrder[k] = r

\* the deploy order todo follows the documented priorities
in_documented_order(d, trk, is_active, todo) ==
    \A j, k \in DOMAIN todo :
        j < k =>
            \/ documented_rank(d, trk, is_active, todo[j])
                  < documented_rank(d, trk, is_active, todo[k])
            \/ /\ documented_rank(d, trk, is_active, todo[j])
                     = documented_rank(d, trk, is_active, todo[k])
               /\ configured_position(todo[j]) < configured_position(todo[k])

\* C39: when up puts its compute deployers in order, every inoperative
\* unhealthy node comes before every inoperative healthy one, those before
\* the operational unhealthy ones, and those before the operational healthy
\* ones, with the configured order kept inside each class.
C39_DocumentedDeployOrder ==
    [][(pc = "up_provision" /\ pc' = "up_rotate") =>
          in_documented_order(dep, tracker, op.is_active, op'.todo)]_vars

\* ------------------------------------------------------- the restore loop
\* the restore loop of seamless_modification runs for a node that does not
\* meet the precondition of an unforced make_operational
restoring_unfit ==
    /\ pc \in {"sm_restore", "sm_wait", "sm_prompt"}
    /\ op.make_operational
    /\ unfit(op.node)

\* the step leaves the restore loop: on to the next deployer, or exit(1)
leaves_restore_loop == pc' \in {"up_rotate", "done"}

\* the restore attempt for such a node changes nothing in the cloud and
\* records no registration, with or without force_operational
restore_attempt_is_void ==
    [][(restoring_unfit /\ pc = "sm_restore") =>
          /\ CloudNext = Cloud
          /\ <<"register", op.node.rec.aws_id>> \in Range(hist')
                => <<"register", op.node.rec.aws_id>> \in Range(hist)]_vars

\* C40 (as stated): the restore attempt for a node that is unhealthy or not
\* flagged active is made without force and changes nothing, and the restore
\* loop for such a node only ends by the operator's Ignore or Fail.
C40_OnlyOperatorEndsRestore ==
    /\ restore_attempt_is_void
    /\ [][(restoring_unfit /\ leaves_restore_loop) => pc = "sm_prompt"]_vars

\* C40 (as amended): the restore loop of seamless_modification calls
\* make_operational
\* without force even when force_operational is set: for a node that is
\* unhealthy or not flagged active the attempt associates no elastic ip and
\* registers nothing in the load balancer, and the loop only ends by the
\* operator's Ignore or Fail or because the node is operational as it
\* stands, the restore having changed nothing.
C40_RestoreNeverForces ==
    /\ restore_attempt_is_void
    /\ [][(restoring_unfit /\ leaves_restore_loop) =>
             \/ pc = "sm_prompt"
             \/ /\ CloudNext = Cloud
                /\ node_is_operational(op.node)]_vars

\* up with force_operational set waits for the operator's answer about an
\* unfit node of a load balancer after a restore attempt: the node is not
\* registered
C40_Witness ==
    /\ pc = "sm_prompt"
    /\ op.make_operational
    /\ op.force
    /\ unfit(op.node)
    /\ op.node.info.loadbalancer
    /\ <<"restore", op.node.rec.aws_id>> \in Range(hist)
    /\ <<"register", op.node.rec.aws_id>> \notin Range(hist)
    /\ op.node.rec.aws_id \notin lbIn

====
